---- MODULE Spec2Model ----
(***************************************************************************)
(* VoiceBoard (speech-to-whiteboard): the graph state reconciliation       *)
(* engine of the client (graphLayout.ts, Whiteboard.tsx), the server's     *)
(* copy of it (GraphStateManager.kt, Application.kt), the layout call and   *)
(* one voice turn from the language model's reply to the client's cleanup.  *)
(* Further: the server's session registry and its connections, the graph   *)
(* sync messages between the two GraphStates, and the whiteboard page with  *)
(* its tldraw document (renderLayout, extractGraphFromSnapshot, syncCanvas). *)
(* Last: the geometry of layoutGraph (boxes, position hints) and the        *)
(* /ws handler's recordings (audio channel, transcript buffer, replies).    *)
(*                                                                         *)
(* GraphState is two JavaScript Maps.  `nodes` is modelled as a function   *)
(* from node id to node record (no code path depends on the order of the   *)
(* node map for the state it leaves behind); `edges` is modelled as the    *)
(* sequence of edge records in Map insertion order, because delete_edge by *)
(* (source,target) removes the FIRST match in iteration order.             *)
(*                                                                         *)
(* A SketchAction is a record whose DOMAIN is the set of keys present in   *)
(* the JSON object: an absent key is `undefined`, a present key carries a  *)
(* string, a boolean (bidirectional), a number (opacity, in percent) or    *)
(* the value Null.  A stored node is a record whose DOMAIN is the set of   *)
(* keys holding a value other than `undefined`.                            *)
(***************************************************************************)
EXTENDS Integers, Sequences, FiniteSets, TLC

VARIABLES
    nodes,      \* graphStateRef.current.nodes : id -> GraphNode
    edges,      \* graphStateRef.current.edges : sequence of GraphEdge (insertion order)
    pc,         \* position of the code under observation: "idle" | "batch" in the
                \* session, "call", "server", "layout" for a single call, and
                \* "reply" | "sent" | "loop" | "done" in a voice turn, "place" in
                \* the layout pipeline, and the client's place in its recordings:
                \* "ready" | "recording" | "stopping" | "closed"
    left,       \* actions of sketchCommands.actions not yet applied; with
                \* recordings, the number of recordings the client may still start
    op,         \* the step taken last: "init" | "begin" | "step" | "cleanup" | "apply" |
                \* "again" | "await" | "rendered" | "failed" | "server" | "error"
    act,        \* the action passed to the applyAction call under observation
    ret,        \* what that call returned
    preNodes,   \* the node map (client's or server's) as it was before that call
    preEdges,   \* the edges as they were before that call, or before the cleanup
    tolerant,   \* ids of edges this batch created while an endpoint was missing
    srvNodes,   \* the server's GraphState.nodes : id -> GraphNode (GraphStateManager.kt)
    srvEdges,   \* the server's GraphState.edges : set of GraphEdge, which carry no id
    srvRet,     \* what the server's applyAction returned
    elkGraph,   \* the graph handed to elk.layout by the layoutGraph call in flight
    layout,     \* the outcome of that call: pending, a LayoutResult, or a rejection
    canvas,     \* the diagram on the tldraw page: ids of node shapes and of arrows
    appStatus,  \* the status indicator (AppStatus)
    toast,      \* the notification shown last
    actions,    \* the actions of the language model's reply to one recording
    wire,       \* the frame the server sent to the client for that recording, or
                \* the graph_sync message encoded last
    store,      \* the tldraw document of the editor: shape records and arrow bindings
    inflight,   \* the layoutGraph calls awaiting elk.layout, oldest first
    connected,  \* wsRef.current.readyState is OPEN
    saveTimer,  \* the three-second auto-save timer is armed
    erased,     \* ids of the nodes whose shape the user has deleted from the canvas
    sessions,   \* GraphStateManager.sessions : user id -> GraphState instance
    heap,       \* the GraphState instances ever allocated: instance -> ids of its nodes
    conns,      \* the WebSocket connections the server is handling, by connection
    audioChannel,     \* the handler's `audioChannel`: null, or the channel of a recording
    transcriptBuffer, \* the handler's `transcriptBuffer`: final transcripts, oldest first
    jobs,       \* the coroutines the handler has launched that are still running
    outbox,     \* the text frames the handler has sent to the client, oldest first
    wsOpen      \* the handler is still running (its `finally` has not run)

\* the server's GraphState and the result of its last applyAction call
srvVars == <<srvNodes, srvEdges, srvRet>>

\* one voice turn: the reply of the language model and the frame sent for it
turnVars == <<actions, wire>>

\* the layout call of the sketch-commands effect and what it renders
layoutVars == <<elkGraph, layout, canvas, appStatus, toast>>

\* the whiteboard page: the canvas document and what is pending on it
boardVars == <<store, inflight, connected, saveTimer, erased>>

\* the server's session registry and its open connections
regVars == <<sessions, heap, conns>>

\* the /ws handler of one connection while the user records
recVars == <<audioChannel, transcriptBuffer, jobs, outbox, wsOpen>>

vars == <<nodes, edges, pc, left, op, act, ret, preNodes, preEdges, tolerant,
          srvNodes, srvEdges, srvRet, elkGraph, layout, canvas, appStatus, toast,
          actions, wire, store, inflight, connected, saveTimer, erased,
          sessions, heap, conns,
          audioChannel, transcriptBuffer, jobs, outbox, wsOpen>>

(***************************************************************************)
(* Bounds and input domains                                                *)
(***************************************************************************)
\* most actions in one batch (one voice turn)
MaxBatch == 3

\* most edges in a GraphState handed to a single applyAction call
MaxEdges == 2

Null == "<null>"

NoAction == [action |-> "<none>"]

EmptyRec == [k \in {} |-> ""]

EmptyNodes == [k \in {} |-> EmptyRec]

\* The set of records {} or {k: v} for v in vals: an optional JSON key.
Opt(k, vals) == {EmptyRec} \cup {k :> v : v \in vals}

(***************************************************************************)
(* JavaScript value tests                                                  *)
(***************************************************************************)
\* a[k] !== undefined
Has(a, k) == k \in DOMAIN a

\* a[k] is truthy, for a string-valued key: present, not null, not ''
Truthy(a, k) == Has(a, k) /\ a[k] # Null /\ a[k] # ""

\* { [to]: a[from] } when a[from] is not undefined, else {}
Carry(a, from, to) == IF Has(a, from) THEN to :> a[from] ELSE EmptyRec

\* { [to]: a[from] !== undefined ? a[from] : ex[to] }
Merge(a, from, ex, to) ==
    IF Has(a, from) THEN to :> a[from]
    ELSE IF Has(ex, to) THEN to :> ex[to] ELSE EmptyRec

(***************************************************************************)
(* Map helpers                                                             *)
(***************************************************************************)
\* Map.delete on the node map
NodesDelete(ns, id) == [k \in DOMAIN ns \ {id} |-> ns[k]]

\* Map.set on the node map
NodesSet(ns, id, n) == [k \in DOMAIN ns \cup {id} |-> IF k = id THEN n ELSE ns[k]]

EdgeIds(es) == {es[i].id : i \in 1..Len(es)}

EdgeSet(es) == {es[i] : i \in 1..Len(es)}

\* Map.delete on the edge map
EdgesDelete(es, id) ==
    LET Keep(e) == e.id # id IN SelectSeq(es, Keep)

\* Mutant of EdgesSet: the entry is always added at the end, as on a list
EdgesSet_AlwaysAppend(es, e) == Append(es, e)

\* Map.set on the edge map: an existing key keeps its place, a new key goes last
EdgesSet(es, e) ==
    IF e.id \in EdgeIds(es)
    THEN [i \in 1..Len(es) |-> IF es[i].id = e.id THEN e ELSE es[i]]
    ELSE Append(es, e)

\* index of the first entry with this source and target, 0 when there is none
FirstMatch(es, s, t) ==
    LET hits == {i \in 1..Len(es) : es[i].sourceId = s /\ es[i].targetId = t}
    IN IF hits = {} THEN 0 ELSE CHOOSE i \in hits : \A j \in hits : i <= j

Result(ns, es, r) == [nodes |-> ns, edges |-> es, ret |-> r]

(***************************************************************************)
(* applyAction (graphLayout.ts), one operator per case of the switch       *)
(***************************************************************************)
NewNode(a) ==
    [id |-> a.id,
     label |-> a.label,
     description |-> IF Truthy(a, "description") THEN a.description ELSE "",
     type |-> a.type]
    @@ Carry(a, "parent_id", "parentId")
    @@ Carry(a, "color", "color")
    @@ Carry(a, "position", "position")
    @@ Carry(a, "relative_to", "relativeTo")
    @@ Carry(a, "opacity", "opacity")

\* Mutant of CreateNode: the node is stored once the id is there and the other
\* required fields are validated afterwards
CreateNode_ValidateAfterSet(ns, es, a) ==
    IF Truthy(a, "id")
    THEN Result(NodesSet(ns, a.id,
                         [id |-> a.id,
                          label |-> IF Has(a, "label") THEN a.label ELSE "",
                          description |-> "",
                          type |-> IF Has(a, "type") THEN a.type ELSE "box"]),
                es, Truthy(a, "label") /\ Truthy(a, "type"))
    ELSE Result(ns, es, FALSE)

\* Mutant of CreateNode: the fields are tested against null only, so an empty
\* string passes
CreateNode_NonNullCheck(ns, es, a) ==
    IF /\ Has(a, "id") /\ a.id # Null
       /\ Has(a, "label") /\ a.label # Null
       /\ Has(a, "type") /\ a.type # Null
    THEN Result(NodesSet(ns, a.id, NewNode(a)), es, TRUE)
    ELSE Result(ns, es, FALSE)

\* Mutant of CreateNode: on an id that exists the new fields are laid over the
\* stored node, whose other fields stay
CreateNode_KeepOldFields(ns, es, a) ==
    IF Truthy(a, "id") /\ Truthy(a, "label") /\ Truthy(a, "type")
    THEN Result(NodesSet(ns, a.id,
                         NewNode(a) @@ (IF a.id \in DOMAIN ns THEN ns[a.id] ELSE EmptyRec)),
                es, TRUE)
    ELSE Result(ns, es, FALSE)

CreateNode(ns, es, a) ==
    IF Truthy(a, "id") /\ Truthy(a, "label") /\ Truthy(a, "type")
    THEN Result(NodesSet(ns, a.id, NewNode(a)), es, TRUE)
    ELSE Result(ns, es, FALSE)

\* Mutant of MergedNode: the optional fields are taken from the action alone
\* (whole-object replace)
MergedNode_Replace(a, existing) ==
    [id |-> a.id,
     label |-> IF Truthy(a, "label") THEN a.label ELSE existing.label,
     type |-> IF Truthy(a, "type") THEN a.type ELSE existing.type,
     description |-> IF Has(a, "description") THEN a.description ELSE existing.description]
    @@ Carry(a, "parent_id", "parentId")
    @@ Carry(a, "color", "color")
    @@ Carry(a, "position", "position")
    @@ Carry(a, "relative_to", "relativeTo")
    @@ Carry(a, "opacity", "opacity")

MergedNode(a, existing) ==
    [id |-> a.id,
     label |-> IF Truthy(a, "label") THEN a.label ELSE existing.label,
     type |-> IF Truthy(a, "type") THEN a.type ELSE existing.type]
    @@ Merge(a, "description", existing, "description")
    @@ Merge(a, "parent_id", existing, "parentId")
    @@ Merge(a, "color", existing, "color")
    @@ Merge(a, "position", existing, "position")
    @@ Merge(a, "relative_to", existing, "relativeTo")
    @@ Merge(a, "opacity", existing, "opacity")

\* Mutant of UpdateNode: a missing node is created from the action (upsert)
UpdateNode_Upsert(ns, es, a) ==
    IF Truthy(a, "id")
    THEN Result(NodesSet(ns, a.id,
                         MergedNode(a, IF a.id \in DOMAIN ns THEN ns[a.id]
                                       ELSE [label |-> "Node", description |-> "",
                                             type |-> "box"])),
                es, TRUE)
    ELSE Result(ns, es, FALSE)

UpdateNode(ns, es, a) ==
    IF Truthy(a, "id") /\ a.id \in DOMAIN ns
    THEN Result(NodesSet(ns, a.id, MergedNode(a, ns[a.id])), es, TRUE)
    ELSE Result(ns, es, FALSE)

\* the second loop of delete_node: one pass over the node map, deleting each
\* entry whose parentId is the deleted id
RemoveChildren(ns, id) ==
    [k \in {n \in DOMAIN ns : ~(Has(ns[n], "parentId") /\ ns[n].parentId = id)} |-> ns[k]]

\* Mutant of RemoveConnected: only outgoing edges are removed
RemoveConnected_SourceOnly(es, id) ==
    LET Keep(e) == e.sourceId # id IN SelectSeq(es, Keep)

\* the first loop of delete_node
RemoveConnected(es, id) ==
    LET Keep(e) == ~(e.sourceId = id \/ e.targetId = id) IN SelectSeq(es, Keep)

\* Mutant of DeleteNode: a node that does not exist cannot be deleted
DeleteNode_RequireExisting(ns, es, a) ==
    IF Truthy(a, "id") /\ a.id \in DOMAIN ns
    THEN Result(RemoveChildren(NodesDelete(ns, a.id), a.id), RemoveConnected(es, a.id), TRUE)
    ELSE Result(ns, es, FALSE)

DeleteNode(ns, es, a) ==
    IF Truthy(a, "id")
    THEN Result(RemoveChildren(NodesDelete(ns, a.id), a.id), RemoveConnected(es, a.id), TRUE)
    ELSE Result(ns, es, FALSE)

EdgeIdOf(a) ==
    IF Truthy(a, "id") THEN a.id ELSE a.source_id \o "->" \o a.target_id

NewEdge(a) ==
    [id |-> EdgeIdOf(a),
     sourceId |-> a.source_id,
     targetId |-> a.target_id,
     bidirectional |-> Has(a, "bidirectional") /\ a.bidirectional = TRUE]

\* Mutant of CreateEdge: both endpoints must exist when the edge is created
CreateEdge_RequireNodes(ns, es, a) ==
    IF /\ Truthy(a, "source_id") /\ Truthy(a, "target_id")
       /\ a.source_id \in DOMAIN ns /\ a.target_id \in DOMAIN ns
    THEN Result(ns, EdgesSet(es, NewEdge(a)), TRUE)
    ELSE Result(ns, es, FALSE)

CreateEdge(ns, es, a) ==
    IF Truthy(a, "source_id") /\ Truthy(a, "target_id")
    THEN Result(ns, EdgesSet(es, NewEdge(a)), TRUE)
    ELSE Result(ns, es, FALSE)

DeleteEdge(ns, es, a) ==
    IF Truthy(a, "id")
    THEN Result(ns, EdgesDelete(es, a.id), TRUE)
    ELSE IF Truthy(a, "source_id") /\ Truthy(a, "target_id")
    THEN LET i == FirstMatch(es, a.source_id, a.target_id)
         IN IF i = 0 THEN Result(ns, es, FALSE)
            ELSE Result(ns, EdgesDelete(es, es[i].id), TRUE)
    ELSE Result(ns, es, FALSE)

applyAction(ns, es, a) ==
    CASE a.action = "create_node" -> CreateNode(ns, es, a)
      [] a.action = "update_node" -> UpdateNode(ns, es, a)
      [] a.action = "delete_node" -> DeleteNode(ns, es, a)
      [] a.action = "create_edge" -> CreateEdge(ns, es, a)
      [] a.action = "delete_edge" -> DeleteEdge(ns, es, a)
      [] OTHER -> Result(ns, es, FALSE)

(***************************************************************************)
(* Orphan cleanup after a batch (Whiteboard.tsx, sketch-commands effect)   *)
(***************************************************************************)
Orphaned(ns, e) == ~(e.sourceId \in DOMAIN ns) \/ ~(e.targetId \in DOMAIN ns)

\* Mutant of CleanupOrphans: only the source of an edge is looked up
CleanupOrphans_SourceOnly(ns, es) ==
    LET Keep(e) == e.sourceId \in DOMAIN ns IN SelectSeq(es, Keep)

CleanupOrphans(ns, es) ==
    LET Keep(e) == ~Orphaned(ns, e) IN SelectSeq(es, Keep)

(***************************************************************************)
(* The server's GraphState.applyAction (GraphStateManager.kt).  A decoded   *)
(* SketchAction has every field nullable: a key that is absent from the    *)
(* JSON and a key that is null both decode to null.  Edges are a set of     *)
(* (sourceId, targetId, bidirectional) and carry no id.                    *)
(***************************************************************************)
\* the decoded value of a nullable String field
Field(a, k) == IF Has(a, k) THEN a[k] ELSE Null

\* x ?: y
Elvis(x, y) == IF x # Null THEN x ELSE y

\* action.bidirectional ?: false
BidirectionalOf(a) == IF Has(a, "bidirectional") THEN a.bidirectional ELSE FALSE

ServerNewNode(a) ==
    [id |-> a.id,
     label |-> a.label,
     description |-> Elvis(Field(a, "description"), ""),
     type |-> a.type,
     parentId |-> Field(a, "parent_id"),
     color |-> Field(a, "color"),
     position |-> Field(a, "position"),
     relativeTo |-> Field(a, "relative_to")]

ServerCreateNode(ns, es, a) ==
    IF Field(a, "id") # Null /\ Field(a, "label") # Null /\ Field(a, "type") # Null
    THEN Result(NodesSet(ns, a.id, ServerNewNode(a)), es, TRUE)
    ELSE Result(ns, es, FALSE)

ServerMergedNode(a, existing) ==
    [id |-> a.id,
     label |-> Elvis(Field(a, "label"), existing.label),
     description |-> Elvis(Field(a, "description"), existing.description),
     type |-> Elvis(Field(a, "type"), existing.type),
     parentId |-> Elvis(Field(a, "parent_id"), existing.parentId),
     color |-> Elvis(Field(a, "color"), existing.color),
     position |-> Elvis(Field(a, "position"), existing.position),
     relativeTo |-> Elvis(Field(a, "relative_to"), existing.relativeTo)]

ServerUpdateNode(ns, es, a) ==
    IF Field(a, "id") # Null /\ a.id \in DOMAIN ns
    THEN Result(NodesSet(ns, a.id, ServerMergedNode(a, ns[a.id])), es, TRUE)
    ELSE Result(ns, es, FALSE)

\* nodes.values.removeIf { it.parentId == action.id }
ServerRemoveChildren(ns, id) ==
    [k \in {n \in DOMAIN ns : ns[n].parentId # id} |-> ns[k]]

\* edges.removeIf { it.sourceId == id || it.targetId == id }
ServerRemoveConnected(es, id) == {e \in es : ~(e.sourceId = id \/ e.targetId = id)}

ServerDeleteNode(ns, es, a) ==
    IF Field(a, "id") # Null
    THEN Result(ServerRemoveChildren(NodesDelete(ns, a.id), a.id),
                ServerRemoveConnected(es, a.id), TRUE)
    ELSE Result(ns, es, FALSE)

ServerNewEdge(a) ==
    [sourceId |-> a.source_id, targetId |-> a.target_id, bidirectional |-> BidirectionalOf(a)]

ServerCreateEdge(ns, es, a) ==
    IF Field(a, "source_id") # Null /\ Field(a, "target_id") # Null
    THEN Result(ns, es \cup {ServerNewEdge(a)}, TRUE)
    ELSE Result(ns, es, FALSE)

\* Mutant of ServerDeleteEdge: with an id, only the edges that start at the
\* node of that id are removed
ServerDeleteEdge_SourceOnly(ns, es, a) ==
    IF Field(a, "id") # Null
    THEN Result(ns, {e \in es : e.sourceId # a.id}, TRUE)
    ELSE IF Field(a, "source_id") # Null /\ Field(a, "target_id") # Null
    THEN Result(ns, {e \in es : ~(e.sourceId = a.source_id /\ e.targetId = a.target_id)}, TRUE)
    ELSE Result(ns, es, FALSE)

ServerDeleteEdge(ns, es, a) ==
    IF Field(a, "id") # Null
    THEN Result(ns, ServerRemoveConnected(es, a.id), TRUE)
    ELSE IF Field(a, "source_id") # Null /\ Field(a, "target_id") # Null
    THEN Result(ns, {e \in es : ~(e.sourceId = a.source_id /\ e.targetId = a.target_id)}, TRUE)
    ELSE Result(ns, es, FALSE)

\* `when (action.action)` over the five values of the ActionType enum
ServerApplyAction(ns, es, a) ==
    CASE a.action = "create_node" -> ServerCreateNode(ns, es, a)
      [] a.action = "update_node" -> ServerUpdateNode(ns, es, a)
      [] a.action = "delete_node" -> ServerDeleteNode(ns, es, a)
      [] a.action = "create_edge" -> ServerCreateEdge(ns, es, a)
      [] a.action = "delete_edge" -> ServerDeleteEdge(ns, es, a)

(***************************************************************************)
(* layoutGraph (graphLayout.ts) and renderLayout (tldrawShapes.ts).  The    *)
(* positions and sizes ELK computes are left out: a LayoutNode is the       *)
(* GraphNode it was made from.  The ELK graph is the frames, each with its  *)
(* children, the top-level nodes, and the edges handed to the engine.       *)
(***************************************************************************)
\* frames.map((f) => f.id)
FrameIds(ns) == {k \in DOMAIN ns : ns[k].type = "frame"}

\* regularNodes
RegularIds(ns) == DOMAIN ns \ FrameIds(ns)

\* regularNodes.filter((n) => n.parentId === frame.id)
ElkChildren(ns, f) == {k \in RegularIds(ns) : Has(ns[k], "parentId") /\ ns[k].parentId = f}

\* regularNodes.filter((n) => !n.parentId)
TopLevelNodes(ns) == {k \in RegularIds(ns) : ~Truthy(ns[k], "parentId")}

\* the edges given to ELK: those with no frame at either end
ElkEdges(ns, es) ==
    LET Keep(e) == e.sourceId \notin FrameIds(ns) /\ e.targetId \notin FrameIds(ns)
        kept == SelectSeq(es, Keep)
    IN [i \in 1..Len(kept) |->
           [id |-> kept[i].id, sources |-> {kept[i].sourceId}, targets |-> {kept[i].targetId}]]

\* the `graph` passed to elk.layout
ElkGraph(ns, es) ==
    [frames |-> [f \in FrameIds(ns) |-> ElkChildren(ns, f)],
     top |-> TopLevelNodes(ns),
     edges |-> ElkEdges(ns, es)]

\* the ids extractNodes visits in the graph ELK returns
ElkNodeIds(g) == DOMAIN g.frames \cup UNION {g.frames[f] : f \in DOMAIN g.frames} \cup g.top

\* the LayoutResult built after elk.layout has resolved: a node for each ELK
\* node, read from the GraphState, and an edge for each edge of the GraphState
LayoutResult(ns, es, g) ==
    [state |-> "resolved",
     nodes |-> {ns[k] : k \in ElkNodeIds(g) \cap DOMAIN ns},
     edges |-> [i \in 1..Len(es) |->
                   [id |-> es[i].id, sourceId |-> es[i].sourceId,
                    targetId |-> es[i].targetId, bidirectional |-> es[i].bidirectional]]]

\* renderLayout: shapes and arrows that are not in the layout are deleted,
\* every node gets a shape, and every edge whose two ends are among the
\* layout's nodes gets an arrow
RenderLayout(cv, l) ==
    LET ids == {n.id : n \in l.nodes}
        drawn == {l.edges[i].id : i \in {j \in 1..Len(l.edges) :
                      l.edges[j].sourceId \in ids /\ l.edges[j].targetId \in ids}}
    IN [shapes |-> ids,
        arrows |-> (cv.arrows \cap EdgeIds(l.edges)) \cup drawn]

(***************************************************************************)
(* Inputs                                                                  *)
(***************************************************************************)
\* r1 @@ r2 over every choice of one record from each set
Cross2(S, T) == {x @@ y : x \in S, y \in T}

Cross3(S, T, U) == Cross2(Cross2(S, T), U)

Cross4(S, T, U, V) == Cross2(Cross2(S, T), Cross2(U, V))

Kind(k) == {[action |-> k]}

Req(k, vals) == {k :> v : v \in vals}

(***************************************************************************)
(* The session: graphStateRef and the sketch-commands effect               *)
(* (Whiteboard.tsx).  Nodes a and b can be created; c is an id the         *)
(* language model refers to but never creates.                             *)
(***************************************************************************)
BatchInputs ==
    Cross4(Kind("create_node"), Req("id", {"a", "b"}),
           Cross2(Req("label", {"A"}), Req("type", {"server", "frame"})),
           Opt("parent_id", {"a"}))
    \cup {[action |-> "create_node", id |-> "a", type |-> "server"]}
    \cup Cross3(Kind("update_node"), Req("id", {"a", "b"}),
                Req("parent_id", {"a", "b"}) \cup Req("type", {"frame"}))
    \cup Cross2(Kind("delete_node"), Opt("id", {"a", "b"}))
    \cup Cross4(Kind("create_edge"), Req("source_id", {"a"}), Req("target_id", {"b", "c"}),
                Cross2(Opt("id", {"e1"}), Opt("bidirectional", {TRUE})))
    \cup {[action |-> "create_edge", source_id |-> "a"]}
    \cup {[action |-> "delete_edge", id |-> "e1"],
          [action |-> "delete_edge", source_id |-> "a", target_id |-> "b"],
          [action |-> "delete_edge"]}
    \cup {[action |-> "rename_node", id |-> "a", label |-> "A"]}

EmptyElk == [frames |-> [k \in {} |-> {}], top |-> {}, edges |-> <<>>]

NoLayout == [state |-> "none", nodes |-> {}, edges |-> <<>>]

EmptyCanvas == [shapes |-> {}, arrows |-> {}]

NoToast == [kind |-> "none", text |-> ""]

NoFrame == [kind |-> "none", actions |-> <<>>, text |-> ""]

\* no voice turn is under observation
TurnIdle ==
    /\ actions = <<>>
    /\ wire = NoFrame

\* no layout call is under observation
LayoutIdle ==
    /\ elkGraph = EmptyElk
    /\ layout = NoLayout
    /\ canvas = EmptyCanvas
    /\ appStatus = "idle"
    /\ toast = NoToast

\* a tldraw document without records
EmptyStore == [shapes |-> [k \in {} |-> EmptyRec], bindings |-> {}]

\* a function with no argument: a registry, a heap or a connection table without entries
NoEntries == [k \in {} |-> 0]

\* no whiteboard page is under observation
BoardIdle ==
    /\ store = EmptyStore
    /\ inflight = <<>>
    /\ connected = TRUE
    /\ saveTimer = FALSE
    /\ erased = {}

\* no session registry is under observation
RegistryIdle ==
    /\ sessions = NoEntries
    /\ heap = NoEntries
    /\ conns = NoEntries

\* `audioChannel` is null
NoChannel == [rec |-> 0, state |-> "null"]

\* no recording is under observation
RecordIdle ==
    /\ audioChannel = NoChannel
    /\ transcriptBuffer = <<>>
    /\ jobs = {}
    /\ outbox = <<>>
    /\ wsOpen = TRUE

\* no server GraphState is under observation
ServerIdle ==
    /\ srvNodes = EmptyNodes
    /\ srvEdges = {}
    /\ srvRet = FALSE

Init ==
    /\ nodes = EmptyNodes
    /\ edges = <<>>
    /\ pc = "idle"
    /\ left = 0
    /\ op = "init"
    /\ act = NoAction
    /\ ret = FALSE
    /\ preNodes = EmptyNodes
    /\ preEdges = <<>>
    /\ tolerant = {}
    /\ ServerIdle
    /\ LayoutIdle
    /\ TurnIdle
    /\ BoardIdle
    /\ RegistryIdle
    /\ RecordIdle

\* sketchCommands arrives with n >= 1 actions: the effect enters its loop
BeginBatch ==
    /\ pc = "idle"
    /\ op \in {"init", "cleanup"}
    /\ \E n \in 1..MaxBatch : left' = n
    /\ pc' = "batch"
    /\ op' = "begin"
    /\ preEdges' = <<>>
    /\ tolerant' = {}
    /\ UNCHANGED <<nodes, edges, act, ret, preNodes>>
    /\ UNCHANGED boardVars
    /\ UNCHANGED regVars
    /\ UNCHANGED srvVars
    /\ UNCHANGED turnVars
    /\ UNCHANGED layoutVars
    /\ UNCHANGED recVars

\* the ids of edges created in this batch while an endpoint did not exist yet
\* and still stored
Tolerated(tol, ns, a, r) ==
    IF a.action = "create_edge" /\ r.ret
    THEN IF a.source_id \in DOMAIN ns /\ a.target_id \in DOMAIN ns
         THEN tol \ {EdgeIdOf(a)}
         ELSE tol \cup {EdgeIdOf(a)}
    ELSE tol \cap EdgeIds(r.edges)

\* one iteration of `for (const action of sketchCommands.actions)`
ApplyStep(a) ==
    /\ pc = "batch"
    /\ left > 0
    /\ LET r == applyAction(nodes, edges, a)
       IN /\ nodes' = r.nodes
          /\ edges' = r.edges
          /\ tolerant' = Tolerated(tolerant, nodes, a, r)
    /\ left' = left - 1
    /\ op' = "step"
    /\ UNCHANGED <<pc, act, ret, preNodes, preEdges>>
    /\ UNCHANGED boardVars
    /\ UNCHANGED regVars
    /\ UNCHANGED srvVars
    /\ UNCHANGED turnVars
    /\ UNCHANGED layoutVars
    /\ UNCHANGED recVars

ApplyNext == \E a \in BatchInputs : ApplyStep(a)

\* after the loop: the orphan cleanup, then the state goes to layoutGraph
FinishBatch ==
    /\ pc = "batch"
    /\ left = 0
    /\ edges' = CleanupOrphans(nodes, edges)
    /\ pc' = "idle"
    /\ op' = "cleanup"
    /\ preEdges' = edges
    /\ UNCHANGED <<nodes, left, tolerant, act, ret, preNodes>>
    /\ UNCHANGED boardVars
    /\ UNCHANGED regVars
    /\ UNCHANGED srvVars
    /\ UNCHANGED turnVars
    /\ UNCHANGED layoutVars
    /\ UNCHANGED recVars

Next == BeginBatch \/ ApplyNext \/ FinishBatch

Spec == Init /\ [][Next]_vars

(***************************************************************************)
(* applyAction as a function: one call, and the same call repeated, on     *)
(* every GraphState and action of three families of cases.                 *)
(*   node cases:  nodes a, b, c of kind server or frame, parented to a or  *)
(*                b, a few edges; the three node actions                   *)
(*   edge cases:  nodes a, b; edges with synthesized and supplied ids;     *)
(*                the two edge actions and an unknown action               *)
(*   field cases: one node a with every optional field set or not;         *)
(*                create_node and update_node with every field present,    *)
(*                absent, empty or null                                    *)
(* Every such GraphState is one a batch can produce: create_node stores    *)
(* any fields under any id, create_edge stores any endpoints.              *)
(***************************************************************************)
Ids == {"a", "b", "c"}

\* node maps over the ids of D, each node one of the given shapes
NodeMaps(D, Shapes) ==
    UNION {{[k \in DD |-> [id |-> k] @@ g[k]] : g \in [DD -> Shapes]} : DD \in SUBSET D}

\* edge maps of at most n entries of Pool with pairwise different ids
EdgeMaps(Pool, n) ==
    {es \in UNION {[1..k -> Pool] : k \in 0..n} :
        \A i, j \in 1..Len(es) : i # j => es[i].id # es[j].id}

PlainShapes ==
    Cross3({[label |-> "A", description |-> ""]}, Req("type", {"server", "frame"}),
           Opt("parentId", {"a", "b"}))

NodeCaseEdges ==
    {[id |-> "a->b", sourceId |-> "a", targetId |-> "b", bidirectional |-> FALSE],
     [id |-> "b->c", sourceId |-> "b", targetId |-> "c", bidirectional |-> FALSE],
     [id |-> "e1", sourceId |-> "c", targetId |-> "a", bidirectional |-> TRUE]}

NodeCaseInputs ==
    Cross4(Kind("create_node"), Req("id", Ids),
           Cross2(Req("label", {"A"}), Req("type", {"server", "frame"})),
           Opt("parent_id", {"a", "b"}))
    \cup Cross4(Kind("update_node"), Opt("id", Ids), Opt("parent_id", {"a", "b"}),
                Opt("type", {"frame"}))
    \cup Cross2(Kind("delete_node"), Opt("id", Ids \cup {"", "z"}))

EdgeCaseEdges ==
    {[id |-> i, sourceId |-> "a", targetId |-> t, bidirectional |-> b] :
        i \in {"e1"}, t \in {"b", "c"}, b \in BOOLEAN}
    \cup {[id |-> "a->" \o t, sourceId |-> "a", targetId |-> t, bidirectional |-> b] :
        t \in {"b", "c"}, b \in BOOLEAN}

EdgeCaseInputs ==
    Cross4(Kind("create_edge"), Opt("source_id", {"a", ""}), Opt("target_id", {"b", "c"}),
           Cross2(Opt("id", {"e1", ""}), Opt("bidirectional", {TRUE, FALSE})))
    \cup Cross4(Kind("delete_edge"), Opt("id", {"e1", "a", "a->b"}), Opt("source_id", {"a"}),
                Opt("target_id", {"b"}))
    \cup {[action |-> "rename_node", id |-> "a", label |-> "A"]}

FieldShapes ==
    Cross3({[label |-> "A", description |-> "d", type |-> "server"]},
           {EmptyRec, [parentId |-> "f", color |-> "red"]},
           {EmptyRec, [position |-> "above", relativeTo |-> "b", opacity |-> 50]})

FieldInputs ==
    Cross4(Kind("create_node") \cup Kind("update_node"),
           Cross3(Opt("id", {"a", ""}), Opt("label", {"B", "", Null}),
                  Opt("type", {"text", "", Null})),
           Cross3(Opt("description", {"e", "", Null}), Opt("parent_id", {"g", Null}),
                  Opt("color", {"blue"})),
           Cross3(Opt("position", {"below"}), Opt("relative_to", {"c"}), Opt("opacity", {0})))

InitApply ==
    /\ \/ /\ nodes \in NodeMaps(Ids, PlainShapes)
          /\ edges \in EdgeMaps(NodeCaseEdges, MaxEdges)
          /\ act \in NodeCaseInputs
       \/ /\ nodes \in NodeMaps({"a", "b"}, {[label |-> "A", description |-> "", type |-> "server"]})
          /\ edges \in EdgeMaps(EdgeCaseEdges, MaxEdges)
          /\ act \in EdgeCaseInputs
       \/ /\ nodes \in NodeMaps({"a"}, FieldShapes)
          /\ edges = <<>>
          /\ act \in FieldInputs
    /\ pc = "call"
    /\ left = 0
    /\ op = "init"
    /\ ret = FALSE
    /\ preNodes = nodes
    /\ preEdges = edges
    /\ tolerant = {}
    /\ ServerIdle
    /\ LayoutIdle
    /\ TurnIdle
    /\ BoardIdle
    /\ RegistryIdle
    /\ RecordIdle

\* applyAction(state, action)
Apply ==
    /\ pc = "call"
    /\ op = "init"
    /\ LET r == applyAction(nodes, edges, act)
       IN /\ nodes' = r.nodes
          /\ edges' = r.edges
          /\ ret' = r.ret
    /\ op' = "apply"
    /\ UNCHANGED <<pc, left, act, preNodes, preEdges, tolerant>>
    /\ UNCHANGED boardVars
    /\ UNCHANGED regVars
    /\ UNCHANGED srvVars
    /\ UNCHANGED turnVars
    /\ UNCHANGED layoutVars
    /\ UNCHANGED recVars

\* applyAction(state, action) a second time, with the same action
ApplyAgain ==
    /\ pc = "call"
    /\ op = "apply"
    /\ LET r == applyAction(nodes, edges, act)
       IN /\ nodes' = r.nodes
          /\ edges' = r.edges
          /\ ret' = r.ret
    /\ op' = "again"
    /\ preNodes' = nodes
    /\ preEdges' = edges
    /\ UNCHANGED <<pc, left, act, tolerant>>
    /\ UNCHANGED boardVars
    /\ UNCHANGED regVars
    /\ UNCHANGED srvVars
    /\ UNCHANGED turnVars
    /\ UNCHANGED layoutVars
    /\ UNCHANGED recVars

NextApply == Apply \/ ApplyAgain

SpecApply == InitApply /\ [][NextApply]_vars

(***************************************************************************)
(* The server's applyAction as a function: one call on every server        *)
(* GraphState over nodes a, b and a few edges, and every action of a small *)
(* family.  Every such GraphState is one syncFrom or earlier actions can   *)
(* leave behind.                                                           *)
(***************************************************************************)
ServerShapes ==
    {[label |-> "A", description |-> "", type |-> t, parentId |-> p,
      color |-> Null, position |-> Null, relativeTo |-> Null] :
        t \in {"server", "frame"}, p \in {Null, "a"}}

ServerEdgePool ==
    {[sourceId |-> s, targetId |-> t, bidirectional |-> b] :
        s \in {"a", "b"}, t \in {"b", "c"}, b \in BOOLEAN}

ServerInputs ==
    Cross4(Kind("create_node"), Opt("id", {"a", "b"}),
           Cross2(Opt("label", {"B", ""}), Req("type", {"server"})),
           Opt("parent_id", {"b", Null}))
    \cup Cross4(Kind("update_node"), Opt("id", {"a", "c"}), Opt("label", {"B", ""}),
                Opt("parent_id", {"b", Null}))
    \cup Cross2(Kind("delete_node"), Opt("id", {"a", "c"}))
    \cup Cross4(Kind("create_edge"), Opt("source_id", {"a"}), Opt("target_id", {"b"}),
                Cross2(Opt("id", {"e1"}), Opt("bidirectional", {TRUE})))
    \cup Cross4(Kind("delete_edge"), Opt("id", {"e1", "a", "b"}), Opt("source_id", {"a"}),
                Opt("target_id", {"b", "c"}))

InitServer ==
    /\ srvNodes \in NodeMaps({"a", "b"}, ServerShapes)
    /\ srvEdges \in {es \in SUBSET ServerEdgePool : Cardinality(es) <= MaxEdges}
    /\ act \in ServerInputs
    /\ srvRet = FALSE
    /\ nodes = EmptyNodes
    /\ edges = <<>>
    /\ pc = "server"
    /\ left = 0
    /\ op = "init"
    /\ ret = FALSE
    /\ preNodes = srvNodes
    /\ preEdges = srvEdges
    /\ tolerant = {}
    /\ LayoutIdle
    /\ TurnIdle
    /\ BoardIdle
    /\ RegistryIdle
    /\ RecordIdle

\* graphState.applyAction(action) on the server
ServerApply ==
    /\ pc = "server"
    /\ op = "init"
    /\ LET r == ServerApplyAction(srvNodes, srvEdges, act)
       IN /\ srvNodes' = r.nodes
          /\ srvEdges' = r.edges
          /\ srvRet' = r.ret
    /\ op' = "apply"
    /\ UNCHANGED <<nodes, edges, pc, left, act, ret, preNodes, preEdges, tolerant>>
    /\ UNCHANGED boardVars
    /\ UNCHANGED regVars
    /\ UNCHANGED layoutVars
    /\ UNCHANGED turnVars
    /\ UNCHANGED recVars

NextServer == ServerApply

SpecServer == InitServer /\ [][NextServer]_vars

(***************************************************************************)
(* The layout call of the sketch-commands effect: layoutGraph on every     *)
(* GraphState over nodes a, b, c that the orphan cleanup can leave behind,  *)
(* with the page empty or showing an earlier diagram, then either outcome  *)
(* of the ELK promise.                                                     *)
(***************************************************************************)
LayoutShapes ==
    Cross3({[label |-> "A", description |-> ""]}, Req("type", {"server", "frame"}),
           Opt("parentId", {"a"}))

EarlierCanvas == [shapes |-> {"a", "z"}, arrows |-> {"a->b", "z->a"}]

InitLayout ==
    /\ nodes \in NodeMaps(Ids, LayoutShapes)
    /\ edges \in {es \in EdgeMaps(NodeCaseEdges, MaxEdges) : CleanupOrphans(nodes, es) = es}
    /\ canvas \in {EmptyCanvas, EarlierCanvas}
    /\ elkGraph = EmptyElk
    /\ layout = NoLayout
    /\ appStatus = "rendering"
    /\ toast = NoToast
    /\ pc = "layout"
    /\ left = 0
    /\ op = "init"
    /\ act = NoAction
    /\ ret = FALSE
    /\ preNodes = nodes
    /\ preEdges = edges
    /\ tolerant = {}
    /\ ServerIdle
    /\ TurnIdle
    /\ BoardIdle
    /\ RegistryIdle
    /\ RecordIdle

\* layoutGraph(graphState) up to `await elk.layout(graph)`
LayoutCall ==
    /\ pc = "layout"
    /\ op = "init"
    /\ elkGraph' = ElkGraph(nodes, edges)
    /\ layout' = [NoLayout EXCEPT !.state = "pending"]
    /\ op' = "await"
    /\ UNCHANGED <<nodes, edges, pc, left, act, ret, preNodes, preEdges, tolerant>>
    /\ UNCHANGED boardVars
    /\ UNCHANGED regVars
    /\ UNCHANGED <<canvas, appStatus, toast>>
    /\ UNCHANGED srvVars
    /\ UNCHANGED turnVars
    /\ UNCHANGED recVars

\* elk.layout resolves: layoutGraph returns the LayoutResult and the `then`
\* callback renders it
ElkResolve ==
    /\ pc = "layout"
    /\ op = "await"
    /\ layout' = LayoutResult(nodes, edges, elkGraph)
    /\ canvas' = RenderLayout(canvas, layout')
    /\ appStatus' = "idle"
    /\ toast' = [kind |-> "success", text |-> "Rendered"]
    /\ op' = "rendered"
    /\ UNCHANGED <<nodes, edges, pc, left, act, ret, preNodes, preEdges, tolerant>>
    /\ UNCHANGED boardVars
    /\ UNCHANGED regVars
    /\ UNCHANGED elkGraph
    /\ UNCHANGED srvVars
    /\ UNCHANGED turnVars
    /\ UNCHANGED recVars

\* Mutant of ElkReject: the failure is swallowed, the page is cleared and an
\* empty layout is reported as rendered
ElkReject_RenderEmpty ==
    /\ pc = "layout"
    /\ op = "await"
    /\ layout' = [NoLayout EXCEPT !.state = "resolved"]
    /\ canvas' = EmptyCanvas
    /\ appStatus' = "idle"
    /\ toast' = [kind |-> "success", text |-> "Rendered"]
    /\ op' = "failed"
    /\ UNCHANGED <<nodes, edges, pc, left, act, ret, preNodes, preEdges, tolerant>>
    /\ UNCHANGED boardVars
    /\ UNCHANGED regVars
    /\ UNCHANGED elkGraph
    /\ UNCHANGED srvVars
    /\ UNCHANGED turnVars
    /\ UNCHANGED recVars

\* elk.layout rejects: layoutGraph rejects and the `catch` callback runs
ElkReject ==
    /\ pc = "layout"
    /\ op = "await"
    /\ layout' = [NoLayout EXCEPT !.state = "rejected"]
    /\ appStatus' = "error"
    /\ toast' = [kind |-> "error", text |-> "Failed to render diagram"]
    /\ op' = "failed"
    /\ UNCHANGED <<nodes, edges, pc, left, act, ret, preNodes, preEdges, tolerant>>
    /\ UNCHANGED boardVars
    /\ UNCHANGED regVars
    /\ UNCHANGED <<elkGraph, canvas>>
    /\ UNCHANGED srvVars
    /\ UNCHANGED turnVars
    /\ UNCHANGED recVars

NextLayout == LayoutCall \/ ElkResolve \/ ElkReject

SpecLayout == InitLayout /\ [][NextLayout]_vars

(***************************************************************************)
(* One voice turn: the server decodes the language model's reply, applies  *)
(* it to its GraphState and sends it on (Application.kt); the client        *)
(* receives the frame and its sketch-commands effect applies the actions    *)
(* one by one and cleans up (Whiteboard.tsx).  Both GraphStates start as   *)
(* the earlier turn "create a, create b, connect a to b" left them.         *)
(***************************************************************************)
\* enum class ActionType
ActionTypes == {"create_node", "update_node", "delete_node", "create_edge", "delete_edge"}

\* Json.decodeFromString<SketchResponse> succeeds: every action names a value
\* of ActionType
Decodes(as) == \A i \in 1..Len(as) : as[i].action \in ActionTypes

\* Json.encodeToString of a decoded action: a field that is null is left out
Encode(a) == [k \in {j \in DOMAIN a : j = "bidirectional" \/ a[j] # Null} |-> a[k]]

EncodeAll(as) == [i \in 1..Len(as) |-> Encode(as[i])]

RECURSIVE ApplyAll_StopAtRejected(_, _, _)
RECURSIVE ApplyAll(_, _, _)
\* Mutant of ApplyAll: the pass ends at the first action that is rejected
ApplyAll_StopAtRejected(ns, es, as) ==
    IF as = <<>> THEN Result(ns, es, TRUE)
    ELSE LET r == applyAction(ns, es, Head(as))
         IN IF r.ret THEN ApplyAll_StopAtRejected(r.nodes, r.edges, Tail(as))
            ELSE Result(ns, es, FALSE)

\* actions.forEach((a) => applyAction(state, a)): the whole list in one pass
ApplyAll(ns, es, as) ==
    IF as = <<>> THEN Result(ns, es, TRUE)
    ELSE LET r == applyAction(ns, es, Head(as))
         IN ApplyAll(r.nodes, r.edges, Tail(as))

RECURSIVE ServerApplyAll(_, _, _)
\* sketchResponse.actions.forEach { action -> graphState.applyAction(action) }
ServerApplyAll(ns, es, as) ==
    IF as = <<>> THEN Result(ns, es, TRUE)
    ELSE LET r == ServerApplyAction(ns, es, Head(as))
         IN ServerApplyAll(r.nodes, r.edges, Tail(as))

EarlierTurn ==
    <<[action |-> "create_node", id |-> "a", label |-> "A", type |-> "server"],
      [action |-> "create_node", id |-> "b", label |-> "A", type |-> "server"],
      [action |-> "create_edge", source_id |-> "a", target_id |-> "b"]>>

TurnStart == ApplyAll(EmptyNodes, <<>>, EarlierTurn)

TurnStartServer == ServerApplyAll(EmptyNodes, {}, EarlierTurn)

TurnInputs ==
    {[action |-> "create_node", id |-> "c", label |-> "C", type |-> "database"],
     [action |-> "create_node", id |-> "a", type |-> "server"],
     [action |-> "update_node", id |-> "c", label |-> "D"],
     [action |-> "delete_node", id |-> "a"],
     [action |-> "create_edge", source_id |-> "b", target_id |-> "c"],
     [action |-> "delete_edge", source_id |-> "b", target_id |-> "c"],
     [action |-> "rename_node", id |-> "a", label |-> "B"],
     [action |-> "create_node", id |-> "b", label |-> "B", type |-> "server",
      parent_id |-> "a"],
     [action |-> "update_node", id |-> "b", parent_id |-> Null]}

InitTurn ==
    /\ actions \in UNION {[1..n -> TurnInputs] : n \in 0..MaxBatch}
    /\ wire = NoFrame
    /\ nodes = TurnStart.nodes
    /\ edges = TurnStart.edges
    /\ srvNodes = TurnStartServer.nodes
    /\ srvEdges = TurnStartServer.edges
    /\ srvRet = FALSE
    /\ pc = "reply"
    /\ left = 0
    /\ op = "init"
    /\ act = NoAction
    /\ ret = FALSE
    /\ preNodes = nodes
    /\ preEdges = edges
    /\ tolerant = {}
    /\ elkGraph = EmptyElk
    /\ layout = NoLayout
    /\ canvas = EmptyCanvas
    /\ appStatus = "generating"
    /\ toast = NoToast
    /\ BoardIdle
    /\ RegistryIdle
    /\ RecordIdle

\* the reply is complete: decode it, apply it, send it; a reply that does not
\* decode is answered with an ERROR frame
ServerProcess ==
    /\ pc = "reply"
    /\ IF Decodes(actions)
       THEN LET r == ServerApplyAll(srvNodes, srvEdges, actions)
            IN /\ srvNodes' = r.nodes
               /\ srvEdges' = r.edges
               /\ wire' = [kind |-> "response", actions |-> EncodeAll(actions), text |-> ""]
       ELSE /\ wire' = [kind |-> "error", actions |-> <<>>,
                        text |-> "Failed to generate diagram"]
            /\ UNCHANGED <<srvNodes, srvEdges>>
    /\ pc' = "sent"
    /\ op' = "server"
    /\ UNCHANGED <<nodes, edges, left, act, ret, preNodes, preEdges, tolerant, srvRet>>
    /\ UNCHANGED boardVars
    /\ UNCHANGED regVars
    /\ UNCHANGED <<actions>>
    /\ UNCHANGED layoutVars
    /\ UNCHANGED recVars

\* onmessage with an "ERROR:" frame
ClientError ==
    /\ pc = "sent"
    /\ wire.kind = "error"
    /\ appStatus' = "idle"
    /\ toast' = [kind |-> "error", text |-> wire.text]
    /\ pc' = "done"
    /\ op' = "error"
    /\ UNCHANGED <<nodes, edges, left, act, ret, preNodes, preEdges, tolerant>>
    /\ UNCHANGED boardVars
    /\ UNCHANGED regVars
    /\ UNCHANGED <<elkGraph, layout, canvas>>
    /\ UNCHANGED srvVars
    /\ UNCHANGED turnVars
    /\ UNCHANGED recVars

\* onmessage with sketch commands, and the entry of the sketch-commands
\* effect: an empty list ends the turn, any other list starts the loop
ClientReceive ==
    /\ pc = "sent"
    /\ wire.kind = "response"
    /\ IF Len(wire.actions) = 0
       THEN /\ appStatus' = "idle"
            /\ toast' = [kind |-> "info", text |-> "No matching items found"]
            /\ pc' = "done"
            /\ left' = 0
       ELSE /\ appStatus' = "rendering"
            /\ toast' = toast
            /\ pc' = "loop"
            /\ left' = Len(wire.actions)
    /\ op' = "begin"
    /\ UNCHANGED <<nodes, edges, act, ret, preNodes, preEdges, tolerant>>
    /\ UNCHANGED boardVars
    /\ UNCHANGED regVars
    /\ UNCHANGED <<elkGraph, layout, canvas>>
    /\ UNCHANGED srvVars
    /\ UNCHANGED turnVars
    /\ UNCHANGED recVars

\* Mutant of TurnStep: the loop is left at the first rejected action
TurnStep_StopOnReject ==
    /\ pc = "loop"
    /\ left > 0
    /\ LET a == wire.actions[Len(wire.actions) - left + 1]
           r == applyAction(nodes, edges, a)
       IN /\ nodes' = r.nodes
          /\ edges' = r.edges
          /\ act' = a
          /\ ret' = r.ret
          /\ left' = IF r.ret THEN left - 1 ELSE 0
    /\ op' = "step"
    /\ UNCHANGED <<pc, preNodes, preEdges, tolerant>>
    /\ UNCHANGED boardVars
    /\ UNCHANGED regVars
    /\ UNCHANGED srvVars
    /\ UNCHANGED turnVars
    /\ UNCHANGED layoutVars
    /\ UNCHANGED recVars

\* one iteration of `for (const action of sketchCommands.actions)`, on the
\* next action of the list
TurnStep ==
    /\ pc = "loop"
    /\ left > 0
    /\ LET a == wire.actions[Len(wire.actions) - left + 1]
           r == applyAction(nodes, edges, a)
       IN /\ nodes' = r.nodes
          /\ edges' = r.edges
          /\ act' = a
          /\ ret' = r.ret
    /\ left' = left - 1
    /\ op' = "step"
    /\ UNCHANGED <<pc, preNodes, preEdges, tolerant>>
    /\ UNCHANGED boardVars
    /\ UNCHANGED regVars
    /\ UNCHANGED srvVars
    /\ UNCHANGED turnVars
    /\ UNCHANGED layoutVars
    /\ UNCHANGED recVars

\* after the loop: the orphan cleanup
TurnFinish ==
    /\ pc = "loop"
    /\ left = 0
    /\ edges' = CleanupOrphans(nodes, edges)
    /\ pc' = "done"
    /\ op' = "cleanup"
    /\ UNCHANGED <<nodes, left, act, ret, preNodes, preEdges, tolerant>>
    /\ UNCHANGED boardVars
    /\ UNCHANGED regVars
    /\ UNCHANGED srvVars
    /\ UNCHANGED turnVars
    /\ UNCHANGED layoutVars
    /\ UNCHANGED recVars

NextTurn == ServerProcess \/ ClientError \/ ClientReceive \/ TurnStep \/ TurnFinish

SpecTurn == InitTurn /\ [][NextTurn]_vars

(***************************************************************************)
(* The session registry (GraphStateManager) and the WebSocket connections  *)
(* that use it (Application.kt, the /ws route).  A GraphState instance is   *)
(* a number; the heap maps every instance ever allocated to the ids of the *)
(* nodes it holds.  Two users, two connections at a time; a connection id   *)
(* is free again once its handler has returned.                             *)
(***************************************************************************)
MaxInstances == 4

Users == {"u1", "u2"}

Conns == {"c1", "c2"}

\* Mutant of getOrCreate: a new GraphState is put and returned on every call
getOrCreate_AlwaysNew(ss, hp, u) ==
    LET i == Cardinality(DOMAIN hp) + 1
    IN [sessions |-> [v \in DOMAIN ss \cup {u} |-> IF v = u THEN i ELSE ss[v]],
        heap     |-> [j \in DOMAIN hp \cup {i} |-> IF j = i THEN {} ELSE hp[j]],
        state    |-> i]

\* sessions.getOrPut(userId) { GraphState() }: the registry, the heap and the
\* instance returned
getOrCreate(ss, hp, u) ==
    IF u \in DOMAIN ss
    THEN [sessions |-> ss, heap |-> hp, state |-> ss[u]]
    ELSE LET i == Cardinality(DOMAIN hp) + 1
         IN [sessions |-> [v \in DOMAIN ss \cup {u} |-> IF v = u THEN i ELSE ss[v]],
             heap     |-> [j \in DOMAIN hp \cup {i} |-> IF j = i THEN {} ELSE hp[j]],
             state    |-> i]

\* sessions.remove(userId)
remove(ss, u) == [v \in DOMAIN ss \ {u} |-> ss[v]]

InitRegistry ==
    /\ nodes = EmptyNodes
    /\ edges = <<>>
    /\ pc = "registry"
    /\ left = 0
    /\ op = "init"
    /\ act = NoAction
    /\ ret = FALSE
    /\ preNodes = EmptyNodes
    /\ preEdges = <<>>
    /\ tolerant = {}
    /\ ServerIdle
    /\ LayoutIdle
    /\ TurnIdle
    /\ BoardIdle
    /\ RegistryIdle
    /\ RecordIdle

\* the /ws handler up to its frame loop: the token names user u, and the
\* handler keeps what getOrCreate returned for as long as it runs
Connect(c, u) ==
    /\ pc = "registry"
    /\ c \notin DOMAIN conns
    /\ (u \in DOMAIN sessions \/ Cardinality(DOMAIN heap) < MaxInstances)
    /\ LET r == getOrCreate(sessions, heap, u)
       IN /\ sessions' = r.sessions
          /\ heap' = r.heap
          /\ conns' = [d \in DOMAIN conns \cup {c} |->
                          IF d = c THEN [user |-> u, state |-> r.state] ELSE conns[d]]
    /\ op' = "getOrCreate"
    /\ act' = [action |-> "connect", id |-> u]
    /\ UNCHANGED <<nodes, edges, pc, left, ret, preNodes, preEdges, tolerant>>
    /\ UNCHANGED boardVars
    /\ UNCHANGED srvVars
    /\ UNCHANGED turnVars
    /\ UNCHANGED layoutVars
    /\ UNCHANGED recVars

\* a recording of connection c ends in an action that stores node n in the
\* GraphState the handler holds
Mutate(c, n) ==
    /\ pc = "registry"
    /\ c \in DOMAIN conns
    /\ heap' = [heap EXCEPT ![conns[c].state] = @ \cup {n}]
    /\ op' = "mutate"
    /\ act' = [action |-> "create_node", id |-> conns[c].user]
    /\ UNCHANGED <<nodes, edges, pc, left, ret, preNodes, preEdges, tolerant>>
    /\ UNCHANGED <<sessions, conns>>
    /\ UNCHANGED boardVars
    /\ UNCHANGED srvVars
    /\ UNCHANGED turnVars
    /\ UNCHANGED layoutVars
    /\ UNCHANGED recVars

\* the frame loop of connection c ends: the `finally` block of the handler
Disconnect(c) ==
    /\ pc = "registry"
    /\ c \in DOMAIN conns
    /\ sessions' = remove(sessions, conns[c].user)
    /\ conns' = [d \in DOMAIN conns \ {c} |-> conns[d]]
    /\ op' = "remove"
    /\ act' = [action |-> "disconnect", id |-> conns[c].user]
    /\ UNCHANGED <<nodes, edges, pc, left, ret, preNodes, preEdges, tolerant>>
    /\ UNCHANGED heap
    /\ UNCHANGED boardVars
    /\ UNCHANGED srvVars
    /\ UNCHANGED turnVars
    /\ UNCHANGED layoutVars
    /\ UNCHANGED recVars

NextRegistry ==
    \/ \E c \in Conns, u \in Users : Connect(c, u)
    \/ \E c \in Conns, n \in {"a", "b"} : Mutate(c, n)
    \/ \E c \in Conns : Disconnect(c)

SpecRegistry == InitRegistry /\ [][NextRegistry]_vars

(***************************************************************************)
(* Graph sync: the client serializes its GraphState (serializeGraphState),  *)
(* the server decodes the message and replaces its GraphState with it       *)
(* (syncFrom), and the repository encodes the server's GraphState as the    *)
(* same kind of message (WhiteboardRepository.save) and reads it back       *)
(* (load).  A message is its node objects and its edge objects, each an     *)
(* object of the keys that were written: JSON.stringify leaves out a key    *)
(* whose value is undefined, the server's encoder one that is null.         *)
(***************************************************************************)
\* the keys of SerializedGraphNode
SerializedNodeKeys ==
    {"id", "label", "description", "type", "parentId", "color", "position", "relativeTo"}

\* serializeGraphState: nine keys of every node, four of every edge
serializeGraphState(ns, es) ==
    [kind  |-> "graph_sync",
     nodes |-> {[k \in DOMAIN ns[id] \cap (SerializedNodeKeys \cup {"opacity"}) |-> ns[id][k]] :
                    id \in DOMAIN ns},
     edges |-> {[id |-> es[i].id, sourceId |-> es[i].sourceId, targetId |-> es[i].targetId,
                 bidirectional |-> es[i].bidirectional] : i \in 1..Len(es)}]

\* Json.decodeFromString(GraphSyncMessage.serializer(), text) with the default
\* configuration: a key the classes do not declare is an error
DecodeGraphSync(m) ==
    IF \E n \in m.nodes : ~(DOMAIN n \subseteq SerializedNodeKeys)
    THEN [ok |-> FALSE, nodes |-> {}, edges |-> {}]
    ELSE [ok |-> TRUE,
          nodes |-> {[k \in SerializedNodeKeys |-> Field(n, k)] : n \in m.nodes},
          edges |-> m.edges]

\* GraphState.syncFrom: both collections are cleared and filled from the message
syncFrom(d) ==
    [nodes |-> [id \in {n.id : n \in d.nodes} |-> CHOOSE n \in d.nodes : n.id = id],
     edges |-> {[sourceId |-> e.sourceId, targetId |-> e.targetId,
                 bidirectional |-> e.bidirectional] : e \in d.edges}]

\* the message WhiteboardRepository.save encodes from the server's GraphState
RepositorySave(sn, se) ==
    [kind  |-> "graph_sync",
     nodes |-> {[k \in {j \in SerializedNodeKeys : sn[id][j] # Null} |-> sn[id][k]] :
                    id \in DOMAIN sn},
     edges |-> {[id |-> e.sourceId \o "-" \o e.targetId, sourceId |-> e.sourceId,
                 targetId |-> e.targetId, bidirectional |-> e.bidirectional] : e \in se}]

SyncShapes ==
    Cross3({[label |-> "A", description |-> ""]}, Req("type", {"server", "frame"}),
           Cross2(Opt("parentId", {"a"}), Opt("opacity", {50})))

SyncEdgePool ==
    {[id |-> "a->b", sourceId |-> "a", targetId |-> "b", bidirectional |-> FALSE],
     [id |-> "a-b", sourceId |-> "a", targetId |-> "b", bidirectional |-> FALSE],
     [id |-> "e1", sourceId |-> "a", targetId |-> "b", bidirectional |-> FALSE],
     [id |-> "b-a", sourceId |-> "b", targetId |-> "a", bidirectional |-> TRUE]}

InitSync ==
    /\ nodes \in NodeMaps({"a", "b"}, SyncShapes)
    /\ edges \in EdgeMaps(SyncEdgePool, MaxEdges)
    /\ \A i \in 1..Len(edges) : {edges[i].sourceId, edges[i].targetId} \subseteq DOMAIN nodes
    /\ pc = "sync"
    /\ left = 0
    /\ op = "init"
    /\ act = NoAction
    /\ ret = FALSE
    /\ preNodes = EmptyNodes
    /\ preEdges = <<>>
    /\ tolerant = {}
    /\ ServerIdle
    /\ LayoutIdle
    /\ TurnIdle
    /\ BoardIdle
    /\ RegistryIdle
    /\ RecordIdle

\* the recorder stops: the client sends serializeGraphState(graphStateRef.current)
SendGraphSync ==
    /\ pc = "sync"
    /\ wire' = serializeGraphState(nodes, edges)
    /\ pc' = "sent"
    /\ op' = "serialize"
    /\ UNCHANGED <<nodes, edges, left, act, ret, preNodes, preEdges, tolerant>>
    /\ UNCHANGED actions
    /\ UNCHANGED boardVars
    /\ UNCHANGED regVars
    /\ UNCHANGED srvVars
    /\ UNCHANGED layoutVars
    /\ UNCHANGED recVars

\* the server's text-frame handler: a message that decodes replaces the
\* GraphState, one that does not is taken not to be a graph sync and ignored
ReceiveGraphSync ==
    /\ pc = "sent"
    /\ LET d == DecodeGraphSync(wire)
       IN IF d.ok
          THEN /\ srvNodes' = syncFrom(d).nodes
               /\ srvEdges' = syncFrom(d).edges
               /\ op' = "syncFrom"
          ELSE /\ UNCHANGED <<srvNodes, srvEdges>>
               /\ op' = "ignored"
    /\ pc' = "synced"
    /\ UNCHANGED <<nodes, edges, left, act, ret, preNodes, preEdges, tolerant>>
    /\ UNCHANGED srvRet
    /\ UNCHANGED turnVars
    /\ UNCHANGED boardVars
    /\ UNCHANGED regVars
    /\ UNCHANGED layoutVars
    /\ UNCHANGED recVars

\* WhiteboardRepository.save of the server's GraphState
SaveWhiteboard ==
    /\ pc = "synced"
    /\ wire' = RepositorySave(srvNodes, srvEdges)
    /\ pc' = "saved"
    /\ op' = "save"
    /\ UNCHANGED <<nodes, edges, left, act, ret, preNodes, preEdges, tolerant>>
    /\ UNCHANGED actions
    /\ UNCHANGED boardVars
    /\ UNCHANGED regVars
    /\ UNCHANGED srvVars
    /\ UNCHANGED layoutVars
    /\ UNCHANGED recVars

\* WhiteboardRepository.load: a new GraphState filled by syncFrom
LoadWhiteboard ==
    /\ pc = "saved"
    /\ LET d == DecodeGraphSync(wire)
       IN /\ srvNodes' = syncFrom(d).nodes
          /\ srvEdges' = syncFrom(d).edges
    /\ pc' = "loaded"
    /\ op' = "load"
    /\ UNCHANGED <<nodes, edges, left, act, ret, preNodes, preEdges, tolerant>>
    /\ UNCHANGED srvRet
    /\ UNCHANGED turnVars
    /\ UNCHANGED boardVars
    /\ UNCHANGED regVars
    /\ UNCHANGED layoutVars
    /\ UNCHANGED recVars

NextSync == SendGraphSync \/ ReceiveGraphSync \/ SaveWhiteboard \/ LoadWhiteboard

SpecSync == InitSync /\ [][NextSync]_vars

(***************************************************************************)
(* The tldraw document (editor.store) as renderLayout writes it and         *)
(* extractGraphFromSnapshot reads it.  A shape id `shape:x` is the pair     *)
(* <<"shape", x>> and an arrow id `shape:arrow_x` the pair                  *)
(* <<"shape:arrow_", x>>, so that removing the prefix is taking the second  *)
(* component.  A shape record holds type, parentId, opacity (in percent)    *)
(* and its props side by side, and x, y, w, h where the layout that drew    *)
(* it carries geometry.  A binding is (fromId, toId, terminal).  Of the      *)
(* editor: deleteShapes takes                                               *)
(* the descendants and the bindings of a shape with it, updateShape skips   *)
(* a missing shape and a key that is undefined, createShape without a       *)
(* parentId puts the shape on the page and skips an id that exists.          *)
(***************************************************************************)
\* getShapeId
getShapeId(id) == <<"shape", id>>

\* getArrowId
getArrowId(id) == <<"shape:arrow_", id>>

\* the id of the page
PageId == <<"page", "page">>

\* id.replace('shape:arrow_', '').replace('shape:', '')
StripShape(sid) == sid[2]

\* NODE_COLORS[nodeType] || 'grey'
getNodeColor(t) ==
    CASE t \in {"server", "box"} -> "blue"
      [] t = "database" -> "green"
      [] OTHER -> "grey"

\* the type and props renderLayout gives the shape of a layout node
ShapeProps(n) ==
    CASE n.type = "frame" -> [type |-> "frame", name |-> n.label]
      [] n.type = "text"  -> [type |-> "text", richText |-> <<n.label, n.description>>]
      [] n.type = "note"  -> [type |-> "note", richText |-> <<n.label, n.description>>,
                              color |-> IF Truthy(n, "color") THEN n.color ELSE "yellow"]
      [] OTHER -> [type |-> "diagram-node", color |-> getNodeColor(n.type),
                   nodeType |-> n.type, label |-> n.label, description |-> n.description]

\* the x, y and size renderLayout gives the shape of a layout node (none
\* where the layout's geometry is left out): a note takes its own size, a
\* text its own height
ShapeBox(n) ==
    IF ~Has(n, "x") THEN EmptyRec
    ELSE [x |-> n.x, y |-> n.y]
         @@ (CASE n.type = "note" -> EmptyRec
               [] n.type = "text" -> [w |-> n.width]
               [] OTHER -> [w |-> n.width, h |-> n.height])

\* `parentId` of the partial: set for a regular node that has a parentId
ShapeParent(n) ==
    IF n.type # "frame" /\ Truthy(n, "parentId")
    THEN [parentId |-> getShapeId(n.parentId)]
    ELSE EmptyRec

\* the shapes that editor.deleteShapes(S) removes besides S
Descendants(st, S) == {s \in DOMAIN st.shapes : st.shapes[s].parentId \in S}

\* renderLayout on the document st with the nodes and edges of a LayoutResult
renderLayout(st, l) ==
    LET ids        == {n.id : n \in l.nodes}
        NodeOf(id) == CHOOSE n \in l.nodes : n.id = id
        existing   == DOMAIN st.shapes
        newNodeIds == {getShapeId(i) : i \in ids}
        newEdgeIds == {getArrowId(l.edges[i].id) : i \in 1..Len(l.edges)}
        stale      == {s \in existing :
                          IF st.shapes[s].type = "arrow" THEN s \notin newEdgeIds
                          ELSE /\ st.shapes[s].type \in {"diagram-node", "text", "note", "frame"}
                               /\ s \notin newNodeIds}
        gone       == stale \cup Descendants(st, stale)
        kept       == existing \ gone
        \* a removed shape whose id was in existingShapeIds is updated in vain,
        \* except a text or a note, which is looked up again and created
        skipped    == {s \in newNodeIds \cap gone : NodeOf(s[2]).type \notin {"text", "note"}}
        drawn      == {i \in 1..Len(l.edges) :
                          l.edges[i].sourceId \in ids /\ l.edges[i].targetId \in ids}
        arrowIds   == {getArrowId(l.edges[i].id) : i \in drawn}
        EdgeOf(a)  == l.edges[CHOOSE i \in drawn : getArrowId(l.edges[i].id) = a]
        Shape(s)   ==
            IF s \in newNodeIds
            THEN IF s \in kept
                 THEN ShapeBox(NodeOf(s[2])) @@ ShapeProps(NodeOf(s[2]))
                      @@ ShapeParent(NodeOf(s[2])) @@ st.shapes[s]
                 ELSE ShapeBox(NodeOf(s[2])) @@ ShapeProps(NodeOf(s[2]))
                      @@ ShapeParent(NodeOf(s[2])) @@ [parentId |-> PageId, opacity |-> 100]
            ELSE IF s \in kept
            THEN st.shapes[s]
            ELSE [type |-> "arrow", parentId |-> PageId, opacity |-> 100,
                  arrowheadStart |-> IF EdgeOf(s).bidirectional THEN "arrow" ELSE "none",
                  arrowheadEnd |-> "arrow"]
    IN [shapes   |-> [s \in kept \cup (newNodeIds \ skipped) \cup arrowIds |-> Shape(s)],
        bindings |-> {b \in st.bindings : b.fromId \in kept /\ b.toId \in kept}
                     \cup {[fromId |-> getArrowId(l.edges[i].id),
                            toId |-> getShapeId(l.edges[i].sourceId),
                            terminal |-> "start"] : i \in drawn}
                     \cup {[fromId |-> getArrowId(l.edges[i].id),
                            toId |-> getShapeId(l.edges[i].targetId),
                            terminal |-> "end"] : i \in drawn}]

\* the elements of a finite set in one order
SeqOf(S) == CHOOSE f \in [1..Cardinality(S) -> S] : {f[i] : i \in 1..Cardinality(S)} = S

\* Mutant of ExtractedNode: the parent of the shape becomes the parentId
\* whenever it is not the page
ExtractedNode_AnyParent(st, s) ==
    LET sh == st.shapes[s]
    IN [id          |-> StripShape(s),
        label       |-> IF Truthy(sh, "label") THEN sh.label ELSE "Node",
        description |-> IF Truthy(sh, "description") THEN sh.description ELSE "",
        type        |-> IF Truthy(sh, "nodeType") THEN sh.nodeType ELSE "box"]
       @@ (IF sh.parentId[1] # "page" THEN [parentId |-> StripShape(sh.parentId)] ELSE EmptyRec)
       @@ Carry(sh, "color", "color")
       @@ Carry(sh, "opacity", "opacity")

\* Mutant of ExtractedNode: the place of the shape is stored with the node
ExtractedNode_WithPlace(st, s) ==
    LET sh == st.shapes[s]
    IN [id          |-> StripShape(s),
        label       |-> IF Truthy(sh, "label") THEN sh.label ELSE "Node",
        description |-> IF Truthy(sh, "description") THEN sh.description ELSE "",
        type        |-> IF Truthy(sh, "nodeType") THEN sh.nodeType ELSE "box"]
       @@ (IF /\ sh.parentId[1] # "page"
              /\ sh.parentId \in DOMAIN st.shapes
              /\ st.shapes[sh.parentId].type = "frame"
           THEN [parentId |-> StripShape(sh.parentId)]
           ELSE EmptyRec)
       @@ Carry(sh, "color", "color")
       @@ Carry(sh, "opacity", "opacity")
       @@ Carry(sh, "x", "x")
       @@ Carry(sh, "y", "y")

\* the node extractGraphFromSnapshot stores for the diagram-node shape s
ExtractedNode(st, s) ==
    LET sh == st.shapes[s]
    IN [id          |-> StripShape(s),
        label       |-> IF Truthy(sh, "label") THEN sh.label ELSE "Node",
        description |-> IF Truthy(sh, "description") THEN sh.description ELSE "",
        type        |-> IF Truthy(sh, "nodeType") THEN sh.nodeType ELSE "box"]
       @@ (IF /\ sh.parentId[1] # "page"
              /\ sh.parentId \in DOMAIN st.shapes
              /\ st.shapes[sh.parentId].type = "frame"
           THEN [parentId |-> StripShape(sh.parentId)]
           ELSE EmptyRec)
       @@ Carry(sh, "color", "color")
       @@ Carry(sh, "opacity", "opacity")

\* the bindings of arrow a at terminal t
ArrowBindings(st, a, t) == {b \in st.bindings : b.fromId = a /\ b.terminal = t}

\* the edges extractGraphFromSnapshot stores before its orphan cleanup: one
\* for every arrow that has a start and an end binding
ExtractedEdges(st) ==
    LET arrows == {s \in DOMAIN st.shapes : st.shapes[s].type = "arrow"}
        both   == {a \in arrows : ArrowBindings(st, a, "start") # {}
                                  /\ ArrowBindings(st, a, "end") # {}}
        To(a, t) == StripShape((CHOOSE b \in ArrowBindings(st, a, t) : TRUE).toId)
    IN SeqOf({[id            |-> StripShape(a),
               sourceId      |-> To(a, "start"),
               targetId      |-> To(a, "end"),
               bidirectional |-> st.shapes[a].arrowheadStart = "arrow"
                                 /\ st.shapes[a].arrowheadEnd = "arrow"] : a \in both})

\* Mutant of extractGraphFromSnapshot: the final orphan cleanup is left out
extractGraphFromSnapshot_NoCleanup(st) ==
    LET nodeShapes == {s \in DOMAIN st.shapes : st.shapes[s].type = "diagram-node"}
    IN [nodes |-> [id \in {StripShape(s) : s \in nodeShapes} |->
                      ExtractedNode(st, getShapeId(id))],
        edges |-> ExtractedEdges(st)]

\* extractGraphFromSnapshot
extractGraphFromSnapshot(st) ==
    LET nodeShapes == {s \in DOMAIN st.shapes : st.shapes[s].type = "diagram-node"}
        ns == [id \in {StripShape(s) : s \in nodeShapes} |-> ExtractedNode(st, getShapeId(id))]
    IN [nodes |-> ns, edges |-> CleanupOrphans(ns, ExtractedEdges(st))]

(***************************************************************************)
(* The whiteboard page (Whiteboard.tsx): voice batches, the layout calls    *)
(* they start, the user's edits on the canvas, the auto-save timer and      *)
(* syncCanvas, and the loss of the connection.  The page starts with a      *)
(* GraphState of nodes a (a server: plain, inside frame f, or with colour,   *)
(* opacity and position hint), b (a server or a note) and frame f,          *)
(* as earlier voice turns left it, and with the canvas rendered from it.    *)
(* Each run takes at most MaxEvents events from outside (a voice batch, an  *)
(* edit of the user, the connection closing); a batch here is one action,   *)
(* and no action changes the type of a node.  The rejection of the ELK      *)
(* promise itself is the subject of the layout call above.                  *)
(***************************************************************************)
MaxEvents == 2

BoardShapes ==
    Cross3({[label |-> "A", description |-> ""]}, Req("type", {"server", "note", "frame"}),
           Cross2(Opt("parentId", {"f"}),
                  {EmptyRec, [color |-> "red", opacity |-> 50,
                              position |-> "above", relativeTo |-> "b"]}))

BoardNodes ==
    {ns \in NodeMaps({"a", "b", "f"}, BoardShapes) :
        \A k \in DOMAIN ns :
            /\ (ns[k].type = "frame") = (k = "f")
            /\ k = "a" => ns[k].type = "server"
            /\ k # "a" => DOMAIN ns[k] = {"id", "label", "description", "type"}
            /\ Has(ns[k], "parentId") => ("f" \in DOMAIN ns /\ ~Has(ns[k], "position"))}

BoardEdgePool ==
    {[id |-> "a->b", sourceId |-> "a", targetId |-> "b", bidirectional |-> FALSE],
     [id |-> "e1", sourceId |-> "b", targetId |-> "a", bidirectional |-> TRUE]}

BoardInputs ==
    {[action |-> "create_node", id |-> "c", label |-> "C", type |-> "server"],
     [action |-> "delete_node", id |-> "a"],
     [action |-> "create_edge", source_id |-> "a", target_id |-> "b"]}

\* the shapes the user deletes: those of nodes
Deletable == {getShapeId("a"), getShapeId("b"), getShapeId("f")}

\* where the user moves the shape of node a or b: the page, frame f, a new group g
Parents == {PageId, getShapeId("f"), getShapeId("g")}

\* what the user binds the start and the end of a drawn arrow to: a shape, or
\* nothing (written as the page)
ArrowStarts == {getShapeId("a"), PageId}

ArrowEnds == {getShapeId("b"), getShapeId("f"), PageId}

\* layoutGraph and renderLayout in one go, for a GraphState that does not change meanwhile
Rendered(st, ns, es) == renderLayout(st, LayoutResult(ns, es, ElkGraph(ns, es)))

InitBoard ==
    /\ nodes \in BoardNodes
    /\ edges \in EdgeMaps(BoardEdgePool, MaxEdges)
    /\ \A i \in 1..Len(edges) : {edges[i].sourceId, edges[i].targetId} \subseteq DOMAIN nodes
    /\ store = Rendered(EmptyStore, nodes, edges)
    /\ inflight = <<>>
    /\ connected = TRUE
    /\ saveTimer = TRUE
    /\ erased = {}
    /\ pc = "board"
    /\ left = MaxEvents
    /\ op = "init"
    /\ act = NoAction
    /\ ret = FALSE
    /\ preNodes = nodes
    /\ preEdges = edges
    /\ tolerant = {}
    /\ ServerIdle
    /\ LayoutIdle
    /\ TurnIdle
    /\ RegistryIdle
    /\ RecordIdle

\* ws.onmessage with sketch commands, then the sketch-commands effect up to
\* the layoutGraph call, which runs up to its await: the action is applied to
\* graphStateRef.current, orphans are removed, the ELK graph is built
VoiceBatch(a) ==
    /\ pc = "board"
    /\ left > 0
    /\ connected
    /\ LET r  == applyAction(nodes, edges, a)
           es == CleanupOrphans(r.nodes, r.edges)
       IN /\ nodes' = r.nodes
          /\ edges' = es
          /\ ret' = r.ret
          /\ inflight' = Append(inflight, [graph |-> ElkGraph(r.nodes, es), live |-> TRUE,
                                           nodes |-> EmptyNodes, edges |-> <<>>])
    /\ act' = a
    /\ appStatus' = "rendering"
    /\ left' = left - 1
    /\ op' = "batch"
    /\ preNodes' = nodes
    /\ preEdges' = edges
    /\ UNCHANGED <<pc, tolerant>>
    /\ UNCHANGED <<store, connected, saveTimer, erased>>
    /\ UNCHANGED <<elkGraph, layout, canvas, toast>>
    /\ UNCHANGED regVars
    /\ UNCHANGED srvVars
    /\ UNCHANGED turnVars
    /\ UNCHANGED recVars

\* the oldest elk.layout promise resolves: layoutGraph goes on after its
\* await, reading the labels and the edges from the GraphState object it was
\* given, as that object is by now; the `then` callback renders the result.
\* A node of the ELK graph that the object no longer has makes layoutGraph
\* throw, and the `catch` callback reports the failure.
LayoutSettle ==
    /\ pc = "board"
    /\ inflight # <<>>
    /\ LET call == Head(inflight)
           ns   == IF call.live THEN nodes ELSE call.nodes
           es   == IF call.live THEN edges ELSE call.edges
       IN IF ElkNodeIds(call.graph) \subseteq DOMAIN ns
          THEN /\ layout' = LayoutResult(ns, es, call.graph)
               /\ store' = renderLayout(store, layout')
               /\ appStatus' = "idle"
               /\ toast' = [kind |-> "success", text |-> "Rendered"]
               /\ saveTimer' = (saveTimer \/ store' # store)
          ELSE /\ layout' = [state |-> "rejected", nodes |-> {}, edges |-> <<>>]
               /\ appStatus' = "error"
               /\ toast' = [kind |-> "error", text |-> "Failed to render diagram"]
               /\ UNCHANGED <<store, saveTimer>>
    /\ inflight' = Tail(inflight)
    /\ op' = "settle"
    /\ UNCHANGED <<nodes, edges, pc, left, act, ret, preNodes, preEdges, tolerant>>
    /\ UNCHANGED <<elkGraph, canvas, connected, erased>>
    /\ UNCHANGED regVars
    /\ UNCHANGED srvVars
    /\ UNCHANGED turnVars
    /\ UNCHANGED recVars

\* an edit of the user that leaves document st and removes the shapes `gone`:
\* the store listener arms the auto-save timer
UserEdit(st, gone) ==
    /\ pc = "board"
    /\ left > 0
    /\ store' = st
    /\ saveTimer' = TRUE
    /\ erased' = erased \cup {StripShape(t) : t \in gone}
    /\ left' = left - 1
    /\ UNCHANGED <<nodes, edges, pc, act, ret, preNodes, preEdges, tolerant>>
    /\ UNCHANGED <<inflight, connected>>
    /\ UNCHANGED regVars
    /\ UNCHANGED srvVars
    /\ UNCHANGED turnVars
    /\ UNCHANGED layoutVars
    /\ UNCHANGED recVars

\* the user deletes shape s: its descendants and the bindings at it go too
UserDeleteShape(s) ==
    /\ s \in DOMAIN store.shapes
    /\ op' = "delete"
    /\ LET gone == {s} \cup Descendants(store, {s})
       IN UserEdit([shapes   |-> [t \in DOMAIN store.shapes \ gone |-> store.shapes[t]],
                    bindings |-> {b \in store.bindings :
                                     b.fromId \notin gone /\ b.toId \notin gone}],
                   {t \in gone : store.shapes[t].type \in {"diagram-node", "text", "note"}})

\* the user drags node shape s onto the page, into a frame, or groups it
UserReparent(s, p) ==
    /\ s \in DOMAIN store.shapes
    /\ store.shapes[s].type = "diagram-node"
    /\ store.shapes[s].parentId # p
    /\ \/ p = PageId
       \/ p \in DOMAIN store.shapes /\ store.shapes[p].type = "frame"
       \/ p = getShapeId("g") /\ p \notin DOMAIN store.shapes
    /\ op' = "reparent"
    /\ LET grouped == p \notin DOMAIN store.shapes \cup {PageId}
           Shape(t) == IF t = s THEN [store.shapes[s] EXCEPT !.parentId = p]
                       ELSE IF t \in DOMAIN store.shapes THEN store.shapes[t]
                       ELSE [type |-> "group", parentId |-> PageId, opacity |-> 100]
       IN UserEdit([shapes   |-> [t \in DOMAIN store.shapes \cup (IF grouped THEN {p} ELSE {})
                                     |-> Shape(t)],
                    bindings |-> store.bindings], {})

\* the user draws an arrow and binds its ends to shapes, or leaves them free
UserDrawArrow(from, to) ==
    /\ getShapeId("u1") \notin DOMAIN store.shapes
    /\ {from, to} \subseteq DOMAIN store.shapes \cup {PageId}
    /\ op' = "draw"
    /\ LET u == getShapeId("u1")
           Shape(t) == IF t = u
                       THEN [type |-> "arrow", parentId |-> PageId, opacity |-> 100,
                             arrowheadStart |-> "none", arrowheadEnd |-> "arrow"]
                       ELSE store.shapes[t]
       IN UserEdit([shapes   |-> [t \in DOMAIN store.shapes \cup {u} |-> Shape(t)],
                    bindings |-> store.bindings
                        \cup (IF from = PageId THEN {}
                              ELSE {[fromId |-> u, toId |-> from, terminal |-> "start"]})
                        \cup (IF to = PageId THEN {}
                              ELSE {[fromId |-> u, toId |-> to, terminal |-> "end"]})], {})

\* the auto-save timer fires and calls syncCanvas: with the socket open,
\* graphStateRef.current becomes a new GraphState extracted from the
\* document; the layout calls in flight keep the object they were given
SyncCanvas ==
    /\ pc = "board"
    /\ saveTimer
    /\ saveTimer' = FALSE
    /\ op' = "sync"
    /\ IF connected
       THEN /\ nodes' = extractGraphFromSnapshot(store).nodes
            /\ edges' = extractGraphFromSnapshot(store).edges
            /\ preNodes' = nodes
            /\ preEdges' = edges
            /\ inflight' = [i \in 1..Len(inflight) |->
                               IF inflight[i].live
                               THEN [inflight[i] EXCEPT !.live = FALSE,
                                                        !.nodes = nodes, !.edges = edges]
                               ELSE inflight[i]]
       ELSE UNCHANGED <<nodes, edges, preNodes, preEdges, inflight>>
    /\ UNCHANGED <<pc, left, act, ret, tolerant>>
    /\ UNCHANGED <<store, connected, erased>>
    /\ UNCHANGED regVars
    /\ UNCHANGED srvVars
    /\ UNCHANGED turnVars
    /\ UNCHANGED layoutVars
    /\ UNCHANGED recVars

\* ws.onclose with a normal close code: the page stays as it is
ConnectionClosed ==
    /\ pc = "board"
    /\ left > 0
    /\ connected
    /\ connected' = FALSE
    /\ left' = left - 1
    /\ op' = "close"
    /\ UNCHANGED <<nodes, edges, pc, act, ret, preNodes, preEdges, tolerant>>
    /\ UNCHANGED <<store, inflight, saveTimer, erased>>
    /\ UNCHANGED regVars
    /\ UNCHANGED srvVars
    /\ UNCHANGED turnVars
    /\ UNCHANGED layoutVars
    /\ UNCHANGED recVars

NextBoard ==
    \/ \E a \in BoardInputs : VoiceBatch(a)
    \/ LayoutSettle
    \/ \E s \in Deletable : UserDeleteShape(s)
    \/ \E s \in DOMAIN store.shapes, p \in Parents : UserReparent(s, p)
    \/ \E from \in ArrowStarts, to \in ArrowEnds : UserDrawArrow(from, to)
    \/ SyncCanvas
    \/ ConnectionClosed

SpecBoard == InitBoard /\ [][NextBoard]_vars

(***************************************************************************)
(* The geometry of layoutGraph.  elk.layout returns the graph it was given  *)
(* with a box (x, y, width, height) on every node, a child's box relative   *)
(* to its frame.  Coordinates are whole numbers here: every box ELK is      *)
(* taken to return and every size of getNodeDimensions is a multiple of     *)
(* 50, so each halving below is exact, as it is in floating point.         *)
(***************************************************************************)
\* the gap of calculatePosition
GAP == 50

\* getNodeDimensions
getNodeDimensions(t) ==
    CASE t = "text" -> [width |-> 300, height |-> 100]
      [] t = "note" -> [width |-> 200, height |-> 150]
      [] OTHER      -> [width |-> 200, height |-> 100]

\* position.toLowerCase(), on the keywords the inputs use
toLowerCase(s) ==
    CASE s = "Above" -> "above"
      [] s = "Right" -> "right"
      [] OTHER       -> s

\* positionedNodeIds: the non-frame nodes with a position
positionedNodeIds(ns) == {k \in RegularIds(ns) : Truthy(ns[k], "position")}

\* the smallest and the largest member of a non-empty set of numbers
Min(S) == CHOOSE m \in S : \A v \in S : m <= v

Max(S) == CHOOSE m \in S : \A v \in S : m >= v

\* getBoundingBoxForNode
getBoundingBoxForNode(n) ==
    [minX |-> n.x, maxX |-> n.x + n.width, minY |-> n.y, maxY |-> n.y + n.height,
     centerX |-> n.x + n.width \div 2, centerY |-> n.y + n.height \div 2]

\* getBoundingBoxForNodes, on a non-empty set of layout nodes
getBoundingBoxForNodes(N) ==
    LET minX == Min({n.x : n \in N})
        maxX == Max({n.x + n.width : n \in N})
        minY == Min({n.y : n \in N})
        maxY == Max({n.y + n.height : n \in N})
    IN [minX |-> minX, maxX |-> maxX, minY |-> minY, maxY |-> maxY,
        centerX |-> (minX + maxX) \div 2, centerY |-> (minY + maxY) \div 2]

\* Mutant of calculatePositionRelativeTo: `above` is left-aligned with the
\* reference box instead of centred on it
calculatePositionRelativeTo_LeftAligned(position, bounds, dims, gap) ==
    LET p == toLowerCase(position)
    IN CASE p \in {"above", "top"} ->
              [x |-> bounds.minX, y |-> bounds.minY - dims.height - gap]
         [] p \in {"below", "bottom"} ->
              [x |-> bounds.centerX - dims.width \div 2, y |-> bounds.maxY + gap]
         [] p = "left" ->
              [x |-> bounds.minX - dims.width - gap, y |-> bounds.centerY - dims.height \div 2]
         [] OTHER ->
              [x |-> bounds.maxX + gap, y |-> bounds.centerY - dims.height \div 2]

\* calculatePositionRelativeTo
calculatePositionRelativeTo(position, bounds, dims, gap) ==
    LET p == toLowerCase(position)
    IN CASE p \in {"above", "top"} ->
              [x |-> bounds.centerX - dims.width \div 2, y |-> bounds.minY - dims.height - gap]
         [] p \in {"below", "bottom"} ->
              [x |-> bounds.centerX - dims.width \div 2, y |-> bounds.maxY + gap]
         [] p = "left" ->
              [x |-> bounds.minX - dims.width - gap, y |-> bounds.centerY - dims.height \div 2]
         [] p = "right" ->
              [x |-> bounds.maxX + gap, y |-> bounds.centerY - dims.height \div 2]
         [] p = "top-left" ->
              [x |-> bounds.minX - dims.width - gap, y |-> bounds.minY - dims.height - gap]
         [] p = "top-right" ->
              [x |-> bounds.maxX + gap, y |-> bounds.minY - dims.height - gap]
         [] p = "bottom-left" ->
              [x |-> bounds.minX - dims.width - gap, y |-> bounds.maxY + gap]
         [] p = "bottom-right" ->
              [x |-> bounds.maxX + gap, y |-> bounds.maxY + gap]
         [] OTHER ->
              [x |-> bounds.maxX + gap, y |-> bounds.centerY - dims.height \div 2]

\* calculatePosition: relative to the node relativeTo names when it is among
\* the reference nodes, else relative to the box around all of them
calculatePosition(node, existingNodes, dims) ==
    LET position == IF Truthy(node, "position") THEN node.position ELSE "right"
        targets  == IF Truthy(node, "relativeTo")
                    THEN {n \in existingNodes : n.id = node.relativeTo}
                    ELSE {}
    IN IF targets # {}
       THEN calculatePositionRelativeTo(position,
                getBoundingBoxForNode(CHOOSE n \in targets : TRUE), dims, GAP)
       ELSE IF existingNodes = {}
       THEN [x |-> 0, y |-> 0]
       ELSE calculatePositionRelativeTo(position,
                getBoundingBoxForNodes(existingNodes), dims, GAP)

\* the node extractNodes pushes for ELK node k: the GraphNode with k's box
LayoutNodeOf(ns, boxes, k) ==
    ns[k] @@ [x |-> boxes[k].x, y |-> boxes[k].y,
              width |-> boxes[k].width, height |-> boxes[k].height]

\* layoutGraph after elk.layout has resolved with the given boxes: the
\* extracted nodes, those with a position hint moved to the computed place
layoutGraph(ns, es, boxes) ==
    LET extracted  == {LayoutNodeOf(ns, boxes, k) : k \in DOMAIN boxes}
        positioned == positionedNodeIds(ns)
        reference  == {n \in extracted : n.id \notin positioned}
        Placed(n)  ==
            IF n.id \in positioned /\ Truthy(n, "position")
            THEN LET p == calculatePosition(ns[n.id], reference,
                                            [width |-> n.width, height |-> n.height])
                 IN [n EXCEPT !.x = p.x, !.y = p.y]
            ELSE n
    IN [state |-> "resolved",
        nodes |-> {Placed(n) : n \in extracted},
        edges |-> [i \in 1..Len(es) |->
                      [id |-> es[i].id, sourceId |-> es[i].sourceId,
                       targetId |-> es[i].targetId, bidirectional |-> es[i].bidirectional]]]

(***************************************************************************)
(* One pass of the sketch-commands effect with its geometry, then a sync    *)
(* from the canvas: an action is applied and orphans are removed,           *)
(* layoutGraph resolves with the boxes ELK returns and the result is        *)
(* rendered, and syncCanvas reads the GraphState back from the document.    *)
(* ELK is free to place the frames and top-level nodes as it likes: each    *)
(* gets a slot of its own on a grid; the only child of a frame sits at the   *)
(* frame's padding.  The node maps are those create_node can leave behind:  *)
(* n1 = a is a server, a note or a frame, with or without a position        *)
(* hint; b is a server on the page, in a, or in a node that does not        *)
(* exist; t is a text placed above a, above b, above a missing node, or     *)
(* above the drawing.  Every edge joins two nodes that are handed to ELK    *)
(* (what an edge at a node ELK is not given does to elk.layout is left to  *)
(* the layout call above, which takes both outcomes).                      *)
(***************************************************************************)
\* where ELK puts a frame or a top-level node
Slots == {[x |-> 500 * c, y |-> 300 * r] : c \in 0..1, r \in 0..1}

\* the boxes elk.layout may return for the graph g of the node map ns
ElkBoxes(ns, g) ==
    LET root    == DOMAIN g.frames \cup g.top
        Size(k) == IF k \in DOMAIN g.frames
                   THEN [width |-> 400, height |-> 200]
                   ELSE getNodeDimensions(ns[k].type)
    IN {[k \in ElkNodeIds(g) |->
            (IF k \in root THEN p[k] ELSE [x |-> 20, y |-> 60]) @@ Size(k)] :
        p \in {q \in [root -> Slots] : \A i, j \in root : i # j => q[i] # q[j]}}

PlaceShapesA ==
    Cross3({[label |-> "A", description |-> ""]}, Req("type", {"server", "note", "frame"}),
           Opt("position", {"right"}))

PlaceShapesB ==
    Cross3({[label |-> "B", description |-> ""]}, Req("type", {"server"}),
           Opt("parentId", {"a", "zz"}))

PlaceShapesT ==
    Cross3({[label |-> "T", description |-> "", type |-> "text", color |-> "red",
             opacity |-> 50]},
           Req("position", {"above"}), Opt("relativeTo", {"a", "b", "zz"}))

PlaceNodes ==
    {ns \in NodeMaps({"a", "b", "t"}, PlaceShapesA \cup PlaceShapesB \cup PlaceShapesT) :
        \A k \in DOMAIN ns :
            /\ k = "a" => ns[k] \in {[id |-> k] @@ sh : sh \in PlaceShapesA}
            /\ k = "b" => ns[k] \in {[id |-> k] @@ sh : sh \in PlaceShapesB}
            /\ k = "t" => ns[k] \in {[id |-> k] @@ sh : sh \in PlaceShapesT}}

PlaceEdgePool ==
    {[id |-> "a->b", sourceId |-> "a", targetId |-> "b", bidirectional |-> FALSE]}

\* the actions of the batch: two of them carry coordinates, as a reply of the
\* language model might
PlaceInputs ==
    {[action |-> "create_node", id |-> "c", label |-> "C", type |-> "server",
      x |-> 10, y |-> 20, width |-> 30, height |-> 40],
     [action |-> "update_node", id |-> "a", label |-> "A2", x |-> 10, y |-> 20],
     [action |-> "delete_node", id |-> "b"]}

InitPlace ==
    /\ nodes \in PlaceNodes
    /\ edges \in {es \in EdgeMaps(PlaceEdgePool, 1) :
                      \A i \in 1..Len(es) : {es[i].sourceId, es[i].targetId}
                                                \subseteq ElkNodeIds(ElkGraph(nodes, <<>>))}
    /\ pc = "place"
    /\ left = 0
    /\ op = "init"
    /\ act = NoAction
    /\ ret = FALSE
    /\ preNodes = nodes
    /\ preEdges = edges
    /\ tolerant = {}
    /\ ServerIdle
    /\ LayoutIdle
    /\ TurnIdle
    /\ BoardIdle
    /\ RegistryIdle
    /\ RecordIdle

\* the loop of the sketch-commands effect on a batch of one action, and the
\* orphan cleanup after it
PlaceApply(a) ==
    /\ pc = "place"
    /\ op = "init"
    /\ LET r == applyAction(nodes, edges, a)
       IN /\ nodes' = r.nodes
          /\ edges' = CleanupOrphans(r.nodes, r.edges)
          /\ ret' = r.ret
    /\ act' = a
    /\ op' = "applied"
    /\ preNodes' = nodes
    /\ preEdges' = edges
    /\ UNCHANGED <<pc, left, tolerant>>
    /\ UNCHANGED boardVars
    /\ UNCHANGED regVars
    /\ UNCHANGED srvVars
    /\ UNCHANGED turnVars
    /\ UNCHANGED layoutVars
    /\ UNCHANGED recVars

\* layoutGraph with elk.layout resolving, and renderLayout in the `then`
\* callback; elkGraph keeps the graph ELK returned, boxes included
ElkPlaced(boxes) ==
    /\ pc = "place"
    /\ op = "applied"
    /\ elkGraph' = ElkGraph(nodes, edges) @@ [boxes |-> boxes]
    /\ layout' = layoutGraph(nodes, edges, boxes)
    /\ store' = renderLayout(store, layout')
    /\ appStatus' = "idle"
    /\ toast' = [kind |-> "success", text |-> "Rendered"]
    /\ saveTimer' = TRUE
    /\ op' = "placed"
    /\ UNCHANGED <<nodes, edges, pc, left, act, ret, preNodes, preEdges, tolerant>>
    /\ UNCHANGED <<inflight, connected, erased>>
    /\ UNCHANGED canvas
    /\ UNCHANGED regVars
    /\ UNCHANGED srvVars
    /\ UNCHANGED turnVars
    /\ UNCHANGED recVars

\* the auto-save timer fires: syncCanvas replaces graphStateRef.current by
\* the GraphState extracted from the document
SyncPlaced ==
    /\ pc = "place"
    /\ op = "placed"
    /\ saveTimer
    /\ LET r == extractGraphFromSnapshot(store)
       IN /\ nodes' = r.nodes
          /\ edges' = r.edges
    /\ preNodes' = nodes
    /\ preEdges' = edges
    /\ saveTimer' = FALSE
    /\ op' = "synced"
    /\ UNCHANGED <<pc, left, act, ret, tolerant>>
    /\ UNCHANGED <<store, inflight, connected, erased>>
    /\ UNCHANGED regVars
    /\ UNCHANGED srvVars
    /\ UNCHANGED turnVars
    /\ UNCHANGED layoutVars
    /\ UNCHANGED recVars

NextPlace ==
    \/ \E a \in PlaceInputs : PlaceApply(a)
    \/ \E boxes \in ElkBoxes(nodes, ElkGraph(nodes, edges)) : ElkPlaced(boxes)
    \/ SyncPlaced

SpecPlace == InitPlace /\ [][NextPlace]_vars

(***************************************************************************)
(* The /ws handler while the user records (Application.kt).  The handler    *)
(* takes the frames of the connection one by one; the Deepgram stream of a  *)
(* recording and the language-model job of a stopped recording run as       *)
(* coroutines beside it.  A transcript is written as the number of the      *)
(* recording whose audio it was made from, and every frame sent carries     *)
(* the recording it answers.  Between STOP_RECORDING and the reading of     *)
(* the transcript buffer the handler waits two seconds, in which the         *)
(* coroutines go on.  The client may start the next recording as soon as    *)
(* it has sent STOP_RECORDING.                                             *)
(***************************************************************************)
\* most recordings in one session
MaxRecordings == 2

\* most transcripts one Deepgram stream delivers
MaxTranscripts == 1

\* the recording the client has started last
Recording == MaxRecordings - left

InitRecord ==
    /\ audioChannel = NoChannel
    /\ transcriptBuffer = <<>>
    /\ jobs = {}
    /\ outbox = <<>>
    /\ wsOpen = TRUE
    /\ pc = "ready"
    /\ left = MaxRecordings
    /\ op = "init"
    /\ nodes = EmptyNodes
    /\ edges = <<>>
    /\ act = NoAction
    /\ ret = FALSE
    /\ preNodes = EmptyNodes
    /\ preEdges = <<>>
    /\ tolerant = {}
    /\ ServerIdle
    /\ LayoutIdle
    /\ TurnIdle
    /\ BoardIdle
    /\ RegistryIdle

\* a binary frame: the first chunk of a recording when `audioChannel` is null
\* opens a channel, clears the buffer and launches the Deepgram stream; the
\* chunk is then sent into `audioChannel`, and a send into a closed channel
\* throws, which ends the handler through its `finally` and cancels the
\* coroutines it launched
AudioChunk ==
    /\ wsOpen
    /\ pc \in {"ready", "recording"}
    /\ pc = "ready" => left > 0
    /\ LET r       == IF pc = "ready" THEN Recording + 1 ELSE Recording
           started == audioChannel.state = "null"
           ch      == IF started THEN [rec |-> r, state |-> "open"] ELSE audioChannel
       IN IF ch.state = "closed"
          THEN /\ wsOpen' = FALSE
               /\ jobs' = {}
               /\ pc' = "closed"
               /\ UNCHANGED <<audioChannel, transcriptBuffer>>
          ELSE /\ audioChannel' = ch
               /\ transcriptBuffer' = IF started THEN <<>> ELSE transcriptBuffer
               /\ jobs' = IF started
                          THEN jobs \cup {[kind |-> "deepgram", rec |-> r, said |-> 0]}
                          ELSE jobs
               /\ pc' = "recording"
               /\ UNCHANGED wsOpen
    /\ left' = IF pc = "ready" THEN left - 1 ELSE left
    /\ op' = "chunk"
    /\ UNCHANGED outbox
    /\ UNCHANGED <<nodes, edges, act, ret, preNodes, preEdges, tolerant>>
    /\ UNCHANGED boardVars
    /\ UNCHANGED regVars
    /\ UNCHANGED srvVars
    /\ UNCHANGED turnVars
    /\ UNCHANGED layoutVars

\* the callback of deepgramClient.streamAudio: a final transcript is appended
\* to the buffer, and every transcript is sent to the client
Transcript(j, isFinal) ==
    /\ wsOpen
    /\ j \in jobs
    /\ j.kind = "deepgram"
    /\ j.said < MaxTranscripts
    /\ transcriptBuffer' = IF isFinal THEN Append(transcriptBuffer, j.rec)
                           ELSE transcriptBuffer
    /\ outbox' = Append(outbox, [kind |-> IF isFinal THEN "FINAL" ELSE "INTERIM",
                                 rec |-> j.rec, from |-> <<>>])
    /\ jobs' = (jobs \ {j}) \cup {[j EXCEPT !.said = j.said + 1]}
    /\ op' = "transcript"
    /\ UNCHANGED <<audioChannel, wsOpen>>
    /\ UNCHANGED <<nodes, edges, pc, left, act, ret, preNodes, preEdges, tolerant>>
    /\ UNCHANGED boardVars
    /\ UNCHANGED regVars
    /\ UNCHANGED srvVars
    /\ UNCHANGED turnVars
    /\ UNCHANGED layoutVars

\* streamAudio returns: its channel was closed and Deepgram has answered
DeepgramEnds(j) ==
    /\ wsOpen
    /\ j \in jobs
    /\ j.kind = "deepgram"
    /\ ~(audioChannel.rec = j.rec /\ audioChannel.state = "open")
    /\ jobs' = jobs \ {j}
    /\ op' = "streamed"
    /\ UNCHANGED <<audioChannel, transcriptBuffer, outbox, wsOpen>>
    /\ UNCHANGED <<nodes, edges, pc, left, act, ret, preNodes, preEdges, tolerant>>
    /\ UNCHANGED boardVars
    /\ UNCHANGED regVars
    /\ UNCHANGED srvVars
    /\ UNCHANGED turnVars
    /\ UNCHANGED layoutVars

\* streamAudio throws (the connection to Deepgram fails): an ERROR frame
DeepgramFails(j) ==
    /\ wsOpen
    /\ j \in jobs
    /\ j.kind = "deepgram"
    /\ jobs' = jobs \ {j}
    /\ outbox' = Append(outbox, [kind |-> "ERROR", rec |-> j.rec, from |-> <<>>])
    /\ op' = "failed"
    /\ UNCHANGED <<audioChannel, transcriptBuffer, wsOpen>>
    /\ UNCHANGED <<nodes, edges, pc, left, act, ret, preNodes, preEdges, tolerant>>
    /\ UNCHANGED boardVars
    /\ UNCHANGED regVars
    /\ UNCHANGED srvVars
    /\ UNCHANGED turnVars
    /\ UNCHANGED layoutVars

\* the text frame STOP_RECORDING, up to the delay: the channel is closed
StopRecording ==
    /\ wsOpen
    /\ pc = "recording"
    /\ audioChannel' = [audioChannel EXCEPT !.state = "closed"]
    /\ pc' = "stopping"
    /\ op' = "stop"
    /\ UNCHANGED <<transcriptBuffer, jobs, outbox, wsOpen>>
    /\ UNCHANGED <<nodes, edges, left, act, ret, preNodes, preEdges, tolerant>>
    /\ UNCHANGED boardVars
    /\ UNCHANGED regVars
    /\ UNCHANGED srvVars
    /\ UNCHANGED turnVars
    /\ UNCHANGED layoutVars

\* after the delay: the buffer is read; a transcript that is not blank is
\* handed to a launched job, a blank one is answered with an ERROR frame and
\* the handler's state is reset
StopRead ==
    /\ wsOpen
    /\ pc = "stopping"
    /\ IF transcriptBuffer # <<>>
       THEN /\ jobs' = jobs \cup {[kind |-> "llm", rec |-> Recording,
                                   transcript |-> transcriptBuffer]}
            /\ UNCHANGED <<audioChannel, transcriptBuffer, outbox>>
       ELSE /\ outbox' = Append(outbox, [kind |-> "ERROR", rec |-> Recording, from |-> <<>>])
            /\ audioChannel' = NoChannel
            /\ transcriptBuffer' = <<>>
            /\ UNCHANGED jobs
    /\ pc' = "ready"
    /\ op' = "read"
    /\ UNCHANGED wsOpen
    /\ UNCHANGED <<nodes, edges, left, act, ret, preNodes, preEdges, tolerant>>
    /\ UNCHANGED boardVars
    /\ UNCHANGED regVars
    /\ UNCHANGED srvVars
    /\ UNCHANGED turnVars
    /\ UNCHANGED layoutVars

\* the launched job ends: the sketch commands, or an ERROR frame when the
\* reply of the language model fails or does not decode, are sent and the
\* handler's state is reset
LlmDone(j, ok) ==
    /\ wsOpen
    /\ j \in jobs
    /\ j.kind = "llm"
    /\ outbox' = Append(outbox, [kind |-> IF ok THEN "response" ELSE "ERROR",
                                 rec |-> j.rec, from |-> j.transcript])
    /\ audioChannel' = NoChannel
    /\ transcriptBuffer' = <<>>
    /\ jobs' = jobs \ {j}
    /\ op' = "replied"
    /\ UNCHANGED wsOpen
    /\ UNCHANGED <<nodes, edges, pc, left, act, ret, preNodes, preEdges, tolerant>>
    /\ UNCHANGED boardVars
    /\ UNCHANGED regVars
    /\ UNCHANGED srvVars
    /\ UNCHANGED turnVars
    /\ UNCHANGED layoutVars

NextRecord ==
    \/ AudioChunk
    \/ \E j \in jobs, isFinal \in BOOLEAN : Transcript(j, isFinal)
    \/ \E j \in jobs : DeepgramEnds(j)
    \/ \E j \in jobs : DeepgramFails(j)
    \/ StopRecording
    \/ StopRead
    \/ \E j \in jobs, ok \in BOOLEAN : LlmDone(j, ok)

SpecRecord == InitRecord /\ [][NextRecord]_vars

(***************************************************************************)
(* Properties                                                              *)
(***************************************************************************)
Called(kind) == op = "apply" /\ act.action = kind

Touches(e, id) == e.sourceId = id \/ e.targetId = id

ParentIs(n, id) == Has(n, "parentId") /\ n.parentId = id

\* the nodes the last call removed
Removed == DOMAIN preNodes \ DOMAIN nodes

\* C1: whenever applyAction returns false, the node map and the edge map are
\* exactly what they were before the call.
C1_RejectedLeavesState ==
    (op \in {"apply", "again"} /\ ~ret) => (nodes = preNodes /\ edges = preEdges)

\* a delete_edge by (source,target) that matched nothing in a graph that has
\* nodes and edges was rejected
C1_Witness ==
    /\ Called("delete_edge")
    /\ ~ret
    /\ Truthy(act, "source_id") /\ Truthy(act, "target_id")
    /\ Len(preEdges) > 0
    /\ DOMAIN preNodes # {}

\* C2 as stated: delete_node of a non-empty id that is no key of the node map
\* returns true and changes neither map, and a second delete_node of the same
\* id changes nothing more.
C2_AbsentIdLeavesState ==
    /\ (Called("delete_node") /\ Truthy(act, "id") /\ act.id \notin DOMAIN preNodes)
          => (ret /\ nodes = preNodes /\ edges = preEdges)
    /\ (op = "again" /\ act.action = "delete_node")
          => (nodes = preNodes /\ edges = preEdges)

\* C2 amended: delete_node of a non-empty id that is no key of the node map
\* returns true, removes exactly the nodes whose parentId is that id and the
\* edges that have it as source or target, and leaves everything else as it
\* was (so nothing changes when nothing refers to the id); a second
\* delete_node of the same id changes nothing more.
C2_AbsentIdRemovesOnlyReferences ==
    /\ (Called("delete_node") /\ Truthy(act, "id") /\ act.id \notin DOMAIN preNodes)
          => /\ ret
             /\ DOMAIN nodes = {k \in DOMAIN preNodes : ~ParentIs(preNodes[k], act.id)}
             /\ \A k \in DOMAIN nodes : nodes[k] = preNodes[k]
             /\ LET Keep(e) == ~Touches(e, act.id) IN edges = SelectSeq(preEdges, Keep)
    /\ (op = "again" /\ act.action = "delete_node")
          => (nodes = preNodes /\ edges = preEdges)

\* delete_node of an id nothing refers to, on a graph with nodes and edges
C2_Witness ==
    /\ Called("delete_node")
    /\ ret
    /\ act.id \notin DOMAIN preNodes
    /\ DOMAIN nodes # {}
    /\ Len(edges) > 0
    /\ nodes = preNodes
    /\ edges = preEdges

\* C3: after delete_node{id} no edge has id as source or target, the node id
\* is absent, and every edge that touches neither id nor a removed child is
\* still there unchanged.
C3_DeleteNodeEdges ==
    (Called("delete_node") /\ ret)
        => /\ act.id \notin DOMAIN nodes
           /\ \A e \in EdgeSet(edges) : ~Touches(e, act.id)
           /\ \A e \in EdgeSet(preEdges) :
                 (\A k \in Removed \cup {act.id} : ~Touches(e, k)) => e \in EdgeSet(edges)
           /\ EdgeSet(edges) \subseteq EdgeSet(preEdges)

\* an existing node was deleted, an edge went with it and another edge stayed
C3_Witness ==
    /\ Called("delete_node")
    /\ ret
    /\ act.id \in DOMAIN preNodes
    /\ Len(edges) > 0
    /\ Len(edges) < Len(preEdges)

\* C4: after delete_node of a frame no node remains whose parentId names the
\* deleted frame or a node the cascade removed.
C4_CascadeReachesFixpoint ==
    (Called("delete_node") /\ ret /\ act.id \in DOMAIN preNodes
        /\ preNodes[act.id].type = "frame")
        => \A k \in DOMAIN nodes : \A r \in Removed : ~ParentIs(nodes[k], r)

\* the action key and the node key of each field update_node merges with
\* `!== undefined`
MergedFields ==
    {<<"description", "description">>, <<"parent_id", "parentId">>, <<"color", "color">>,
     <<"position", "position">>, <<"relative_to", "relativeTo">>, <<"opacity", "opacity">>}

\* the fields update_node merges with `||`
TruthyFields == {<<"label", "label">>, <<"type", "type">>}

Overwritten(f) == Has(nodes[act.id], f[2]) /\ nodes[act.id][f[2]] = act[f[1]]

Preserved(f) ==
    /\ Has(nodes[act.id], f[2]) <=> Has(preNodes[act.id], f[2])
    /\ Has(nodes[act.id], f[2]) => nodes[act.id][f[2]] = preNodes[act.id][f[2]]

OthersUntouched ==
    /\ DOMAIN nodes = DOMAIN preNodes
    /\ \A k \in DOMAIN nodes \ {act.id} : nodes[k] = preNodes[k]
    /\ edges = preEdges

CarriedFields ==
    {<<"parent_id", "parentId">>, <<"color", "color">>, <<"position", "position">>,
     <<"relative_to", "relativeTo">>, <<"opacity", "opacity">>}

C7_UpdateNeedsExistingNode ==
    Called("update_node")
        => /\ ret <=> (Has(act, "id") /\ act.id \in DOMAIN preNodes)
           /\ DOMAIN nodes = DOMAIN preNodes
           /\ ~ret => nodes = preNodes

\* an update_node for an id that names no node was rejected while other
\* nodes exist
C7_Witness ==
    /\ Called("update_node")
    /\ ~ret
    /\ Truthy(act, "id")
    /\ act.id \notin DOMAIN preNodes
    /\ DOMAIN preNodes # {}

\* C8: the cleanup after a batch removes exactly the edges with a missing
\* endpoint, so whenever the effect is not inside a batch (when GraphState
\* is laid out or serialized) every edge has both endpoints in the node map.
C8_NoOrphansOutsideBatch ==
    /\ pc = "idle" => \A e \in EdgeSet(edges) :
                          e.sourceId \in DOMAIN nodes /\ e.targetId \in DOMAIN nodes
    /\ op = "cleanup" =>
          LET Keep(e) == e.sourceId \in DOMAIN nodes /\ e.targetId \in DOMAIN nodes
          IN edges = SelectSeq(preEdges, Keep)

\* a cleanup removed an orphaned edge and kept another edge
C8_Witness ==
    /\ op = "cleanup"
    /\ Len(edges) > 0
    /\ Len(edges) < Len(preEdges)

C9_Stored(a) ==
    \E e \in EdgeSet(edges') : e.sourceId = a.source_id /\ e.targetId = a.target_id

C9_Kept ==
    op = "cleanup" =>
        \A e \in EdgeSet(preEdges) :
            e.id \in tolerant =>
                (e \in EdgeSet(edges)
                    <=> (e.sourceId \in DOMAIN nodes /\ e.targetId \in DOMAIN nodes))

\* C9: create_edge with a source and a target is applied whether or not the
\* nodes exist; an edge created while an endpoint was missing (and not
\* deleted again in the batch) is there after the batch's cleanup if both
\* endpoints are in the node map by then, and gone otherwise.
C9_TolerantCreateEdge ==
    /\ [][\A a \in {x \in BatchInputs : x.action = "create_edge"} :
            (ApplyStep(a) /\ Truthy(a, "source_id") /\ Truthy(a, "target_id"))
                => C9_Stored(a)]_vars
    /\ []C9_Kept

\* after a cleanup, one edge created before its endpoint is kept and another
\* one is gone
C9_Witness ==
    /\ op = "cleanup"
    /\ \E e \in EdgeSet(preEdges) : e.id \in tolerant /\ e \in EdgeSet(edges)
    /\ \E e \in EdgeSet(preEdges) : e.id \in tolerant /\ e \notin EdgeSet(edges)

C10_Id == IF Truthy(act, "id") THEN act.id ELSE act.source_id \o "->" \o act.target_id

ServerRemoved == preEdges \ srvEdges

\* C11: delete_edge with an id matches by edge id only.  On the client it
\* returns true and removes exactly the entries stored under that id (at most
\* one) and nothing else; on the server, whose edges carry no id, it removes
\* at most one edge and never one that merely has the id as source or target.
C11_DeleteEdgeByIdOnly ==
    /\ (pc = "call" /\ Called("delete_edge") /\ Truthy(act, "id"))
          => /\ ret
             /\ nodes = preNodes
             /\ LET Keep(e) == e.id # act.id IN edges = SelectSeq(preEdges, Keep)
             /\ Len(preEdges) - Len(edges) <= 1
    /\ (pc = "server" /\ Called("delete_edge") /\ Field(act, "id") # Null)
          => /\ Cardinality(ServerRemoved) <= 1
             /\ \A e \in ServerRemoved : ~Touches(e, act.id)

\* C12: delete_edge with a (source,target) pair and no id removes exactly the
\* first stored edge with that source and that target and leaves every other
\* edge, parallel ones included, in place; with no such edge it returns false
\* and removes nothing.
C12_DeleteEdgeByPairFirstMatch ==
    /\ (pc = "call" /\ Called("delete_edge") /\ ~Truthy(act, "id")
            /\ Truthy(act, "source_id") /\ Truthy(act, "target_id"))
          => LET i == FirstMatch(preEdges, act.source_id, act.target_id)
             IN /\ nodes = preNodes
                /\ ret <=> (i # 0)
                /\ i = 0 => edges = preEdges
                /\ i # 0 => edges = [j \in 1..(Len(preEdges) - 1) |->
                                        IF j < i THEN preEdges[j] ELSE preEdges[j + 1]]
    /\ (pc = "server" /\ Called("delete_edge") /\ Field(act, "id") = Null
            /\ Field(act, "source_id") # Null /\ Field(act, "target_id") # Null)
          => LET hits == {e \in preEdges :
                             e.sourceId = act.source_id /\ e.targetId = act.target_id}
             IN /\ srvNodes = preNodes
                /\ srvRet <=> (hits # {})
                /\ ServerRemoved \subseteq hits
                /\ Cardinality(ServerRemoved) = (IF hits = {} THEN 0 ELSE 1)

\* the node that node k names as its parent, or Null
ParentOf(ns, k) ==
    IF k \in DOMAIN ns /\ Truthy(ns[k], "parentId") THEN ns[k].parentId ELSE Null

RECURSIVE Ancestor(_, _, _)
\* the n-th node on the chain of parentId links that starts at k, or Null
Ancestor(ns, k, n) ==
    IF n = 0 \/ k = Null THEN k ELSE Ancestor(ns, ParentOf(ns, k), n - 1)

\* C13: whenever the effect is not inside a batch, the parentId of every node
\* that has one is the id of a node of the GraphState whose type is frame.
C13_ParentIsExistingFrame ==
    pc = "idle" =>
        \A k \in DOMAIN nodes :
            Truthy(nodes[k], "parentId")
                => /\ nodes[k].parentId \in DOMAIN nodes
                   /\ nodes[nodes[k].parentId].type = "frame"

\* C14: following parentId links from any node never comes back to that
\* node.
C14_NoContainmentCycle ==
    \A k \in DOMAIN nodes :
        \A n \in 1..Cardinality(DOMAIN nodes) : Ancestor(nodes, k, n) # k

\* C15: whenever the effect is not inside a batch, no edge of the GraphState
\* has a frame-typed node as its source or its target.
C15_NoEdgeAtFrame ==
    pc = "idle" =>
        \A e \in EdgeSet(edges) :
            \A k \in {e.sourceId, e.targetId} :
                k \in DOMAIN nodes => nodes[k].type # "frame"

\* an edge with a frame-typed node of the GraphState at either end
AtFrame(e) == e.sourceId \in FrameIds(nodes) \/ e.targetId \in FrameIds(nodes)

\* C16: an edge with a frame at either end is not among the edges handed to
\* ELK and not among the edges of the LayoutResult, and every edge between
\* two nodes that are not frames is among both.
C16_FrameEdgesExcluded ==
    /\ op \in {"await", "rendered"}
          => /\ \A i \in 1..Len(elkGraph.edges) :
                   /\ elkGraph.edges[i].sources \cap FrameIds(nodes) = {}
                   /\ elkGraph.edges[i].targets \cap FrameIds(nodes) = {}
             /\ \A e \in EdgeSet(edges) : ~AtFrame(e) => e.id \in EdgeIds(elkGraph.edges)
    /\ op = "rendered"
          => /\ \A e \in EdgeSet(layout.edges) : ~AtFrame(e)
             /\ \A e \in EdgeSet(edges) : ~AtFrame(e) => e \in EdgeSet(layout.edges)

\* C20: when the ELK call fails, layoutGraph rejects and yields no
\* LayoutResult, nothing is rendered (the page keeps the diagram it showed),
\* the error is reported through the status and a toast, and the GraphState
\* is the one the layout was called with.
C20_LayoutFailurePropagates ==
    /\ [][op' = "failed"
            => /\ layout'.state = "rejected"
               /\ canvas' = canvas
               /\ nodes' = nodes /\ edges' = edges]_vars
    /\ [](op = "failed"
            => /\ layout.state = "rejected" /\ layout.nodes = {} /\ layout.edges = <<>>
               /\ appStatus = "error"
               /\ toast.kind = "error"
               /\ nodes = preNodes /\ edges = preEdges)

\* the layout of a graph with nodes and edges failed while the page showed an
\* earlier diagram
C20_Witness ==
    /\ op = "failed"
    /\ canvas = EarlierCanvas
    /\ DOMAIN nodes # {}
    /\ Len(edges) > 0

C18_InOrderNoStop ==
    /\ [][(pc = "loop" /\ left > 0)
            => LET a == wire.actions[Len(wire.actions) - left + 1]
                   r == applyAction(nodes, edges, a)
               IN /\ pc' = "loop"
                  /\ left' = left - 1
                  /\ nodes' = r.nodes /\ edges' = r.edges
                  /\ act' = a /\ ret' = r.ret]_vars
    /\ [][(pc = "loop" /\ pc' # "loop") => left = 0]_vars
    /\ [](op = "server" /\ wire.kind = "response"
            => LET r == ServerApplyAll(TurnStartServer.nodes, TurnStartServer.edges, actions)
               IN srvNodes = r.nodes /\ srvEdges = r.edges)

\* an action was applied and changed the state right after the action
\* before it in the list had been rejected
C18_Witness ==
    /\ pc = "loop"
    /\ op = "step"
    /\ ret
    /\ LET i == Len(wire.actions) - left
       IN /\ i >= 2
          /\ LET p == ApplyAll(preNodes, preEdges, SubSeq(wire.actions, 1, i - 2))
                 q == applyAction(p.nodes, p.edges, wire.actions[i - 1])
             IN /\ ~q.ret
                /\ <<nodes, edges>> # <<q.nodes, q.edges>>

\* the actions of a list whose type is one of the five recognized values
Recognized(as) == LET Known(a) == a.action \in ActionTypes IN SelectSeq(as, Known)

\* C19: a reply that holds an action of an unrecognized type is not answered
\* with an error: the unrecognized action changes nothing, and the
\* recognized actions of the reply are applied on the server and delivered
\* to the client.
C19_UnknownActionFiltered ==
    pc \in {"sent", "loop", "done"}
        => /\ wire.kind = "response"
           /\ wire.actions = EncodeAll(Recognized(actions))
           /\ LET r == ServerApplyAll(TurnStartServer.nodes, TurnStartServer.edges,
                                      Recognized(actions))
              IN srvNodes = r.nodes /\ srvEdges = r.edges

\* C23: the registry isolates users.  A user without an entry gets a newly
\* allocated, empty GraphState (on first use and after remove); a user with
\* an entry keeps the same GraphState across every other call until remove;
\* remove takes away the entry of that user only; and a mutation made through
\* the GraphState of one user leaves the GraphState registered for every
\* other user as it was.
C23_RegistryIsolatesUsers ==
    [][\A u \in Users :
         /\ (u \notin DOMAIN sessions /\ u \in DOMAIN sessions')
               => /\ sessions'[u] \notin DOMAIN heap
                  /\ heap'[sessions'[u]] = {}
         /\ (u \in DOMAIN sessions /\ u \in DOMAIN sessions')
               => sessions'[u] = sessions[u]
         /\ (u \in DOMAIN sessions /\ u \notin DOMAIN sessions')
               => (op' = "remove" /\ act'.id = u)
         /\ (u \in DOMAIN sessions /\ op' = "mutate" /\ act'.id # u)
               => heap'[sessions[u]] = heap[sessions[u]]]_vars

\* a user was removed and got a new, empty GraphState while the other user's
\* GraphState, registered all along, holds nodes
C23_Witness ==
    /\ op = "getOrCreate"
    /\ \E u \in Users, v \in Users :
          /\ u # v
          /\ u \in DOMAIN sessions /\ v \in DOMAIN sessions
          /\ sessions[u] > sessions[v]
          /\ sessions[v] > 1
          /\ heap[sessions[u]] = {}
          /\ heap[sessions[v]] = {"a", "b"}
          /\ heap[1] # {}

\* C24: every open connection is the single owner of its GraphState: no two
\* open connections hold the same instance, and the instance an open
\* connection holds is the one the registry has for its user.
C24_SingleOwnerPerConnection ==
    /\ \A c \in DOMAIN conns, d \in DOMAIN conns :
          c # d => conns[c].state # conns[d].state
    /\ \A c \in DOMAIN conns :
          /\ conns[c].user \in DOMAIN sessions
          /\ sessions[conns[c].user] = conns[c].state

\* C25: serialization round-trips.  The message that encodes the GraphState
\* obtained by decoding the client's message and syncing from it holds the
\* same node objects (same ids, every field equal, opacity included) and the
\* same edge objects (same ids, endpoints and bidirectional flags; edges
\* that differ only by id stay apart) as the client's message.
C25_SyncRoundTrips ==
    pc = "saved"
        => /\ wire.nodes = serializeGraphState(nodes, edges).nodes
           /\ wire.edges = serializeGraphState(nodes, edges).edges

\* C21: within one page at most one layout call is in flight, and a layout
\* that has just been rendered is the layout of the GraphState as it is then:
\* no result is rendered for a GraphState that a batch or a sync has
\* superseded.
C21_SingleLayoutInFlight ==
    /\ Len(inflight) <= 1
    /\ (op = "settle" /\ layout.state = "resolved")
          => layout = LayoutResult(nodes, edges, ElkGraph(nodes, edges))

\* C22: once the connection is closed, a layout call that settles is
\* discarded: it changes no shape and no binding of the document, and
\* neither the status nor the notification.
C22_SettleAfterCloseDiscarded ==
    [][(~connected /\ op' = "settle")
          => (store' = store /\ appStatus' = appStatus /\ toast' = toast)]_vars

\* the arrows of document st that have a binding to a node shape at terminal t
BoundToNode(st, a, t, ns) ==
    \E b \in ArrowBindings(st, a, t) :
        /\ b.toId \in DOMAIN st.shapes
        /\ st.shapes[b.toId].type = "diagram-node"
        /\ StripShape(b.toId) \in DOMAIN ns

\* C26: after a sync from the canvas every edge of the GraphState stands for
\* an arrow whose start and end are both bound to shapes that are nodes of
\* the extracted GraphState, with those nodes as its endpoints; an arrow with
\* a free end or an end at another shape has no edge.
C26_EdgesHaveBothEndpoints ==
    (op = "sync" /\ connected)
        => \A i \in 1..Len(edges) :
              /\ edges[i].sourceId \in DOMAIN nodes
              /\ edges[i].targetId \in DOMAIN nodes
              /\ \E a \in DOMAIN store.shapes :
                    /\ store.shapes[a].type = "arrow"
                    /\ StripShape(a) = edges[i].id
                    /\ BoundToNode(store, a, "start", nodes)
                    /\ BoundToNode(store, a, "end", nodes)

\* a sync kept the edge of a rendered arrow and dropped the arrow the user
\* drew from a node to a shape that is not a node, or with a free end
C26_Witness ==
    /\ op = "sync"
    /\ connected
    /\ Len(edges) >= 1
    /\ getShapeId("u1") \in DOMAIN store.shapes
    /\ ArrowBindings(store, getShapeId("u1"), "start") # {}
    /\ \A i \in 1..Len(edges) : edges[i].id # "u1"

\* C27: after a sync from the canvas a node has a parentId exactly when the
\* parent of its shape is a frame-typed shape of the document, and then it
\* is that frame's id; a shape on the page or inside any other shape gives a
\* node without parentId.
C27_ParentIdOnlyFromFrame ==
    (op = "sync" /\ connected)
        => \A id \in DOMAIN nodes :
              LET parent == store.shapes[getShapeId(id)].parentId
                  framed == /\ parent \in DOMAIN store.shapes
                            /\ store.shapes[parent].type = "frame"
              IN /\ Has(nodes[id], "parentId") <=> framed
                 /\ framed => nodes[id].parentId = StripShape(parent)

\* a sync found one node shape inside a frame and another inside a group
C27_Witness ==
    /\ op = "sync"
    /\ connected
    /\ \E id \in DOMAIN nodes : Has(nodes[id], "parentId")
    /\ \E id \in DOMAIN nodes :
          /\ ~Has(nodes[id], "parentId")
          /\ store.shapes[getShapeId(id)].parentId = getShapeId("g")

\* C28: a sync that follows the rendering of a GraphState with no edit of
\* the user in between extracts the same node ids (frames and notes
\* included), each with the same type and parentId, and the same edges with
\* the same ids, endpoints and bidirectional flags.
C28_RenderExtractLossless ==
    (op = "sync" /\ connected /\ left = MaxEvents)
        => /\ DOMAIN nodes = DOMAIN preNodes
           /\ \A id \in DOMAIN nodes \cap DOMAIN preNodes :
                 /\ nodes[id].type = preNodes[id].type
                 /\ Field(nodes[id], "parentId") = Field(preNodes[id], "parentId")
           /\ EdgeSet(edges) = EdgeSet(preEdges)

\* C29: a node whose shape the user has deleted from the canvas is not drawn
\* again: no later step puts a shape for it on the canvas (no batch of this
\* page re-creates a node that was on the canvas).
C29_DeletedNodeStaysDeleted ==
    [][\A id \in erased : getShapeId(id) \notin DOMAIN store'.shapes]_vars

\* the document is what rendering the GraphState ns, es gave, but for the
\* parents of node shapes and the groups the user made
OnlyReparented(st, ns, es) ==
    LET r      == Rendered(EmptyStore, ns, es)
        shapes == {s \in DOMAIN st.shapes : st.shapes[s].type # "group"}
    IN /\ shapes = DOMAIN r.shapes
       /\ st.bindings = r.bindings
       /\ \A s \in shapes :
             IF st.shapes[s].type = "diagram-node"
             THEN [st.shapes[s] EXCEPT !.parentId = PageId]
                  = [r.shapes[s] EXCEPT !.parentId = PageId]
             ELSE st.shapes[s] = r.shapes[s]
       /\ \E s \in shapes : st.shapes[s].parentId # r.shapes[s].parentId

\* C30: a sync that finds nothing changed on the canvas but the parent of
\* node shapes changes nothing in the GraphState but the parentId of those
\* nodes: the same nodes are there, every other field of every node is as it
\* was, a node whose shape has the parent it had keeps its parentId, and the
\* edges are the same.
C30_ReparentChangesOnlyParentId ==
    (op = "sync" /\ connected /\ OnlyReparented(store, preNodes, preEdges))
        => /\ DOMAIN nodes = DOMAIN preNodes
           /\ \A id \in DOMAIN nodes \cap DOMAIN preNodes :
                 /\ DOMAIN nodes[id] \ {"parentId"} = DOMAIN preNodes[id] \ {"parentId"}
                 /\ \A k \in (DOMAIN nodes[id] \cap DOMAIN preNodes[id]) \ {"parentId"} :
                       nodes[id][k] = preNodes[id][k]
           /\ EdgeSet(edges) = EdgeSet(preEdges)

(***************************************************************************)
(* Geometry: GraphState, hint-positioned nodes, LayoutResult               *)
(***************************************************************************)
GeometryKeys == {"x", "y", "width", "height", "w", "h"}

\* C31: in every reachable GraphState no node record carries geometry (x, y,
\* width, height): neither applying an action, even one that carries
\* coordinates, nor syncing from the canvas, whose shapes have a place and a
\* size, writes coordinates into GraphState.
C31_NoGeometryInGraphState ==
    \A k \in DOMAIN nodes : DOMAIN nodes[k] \cap GeometryKeys = {}

\* an action with coordinates was applied, the layout was rendered, and a
\* node was read back from a shape that has a place on the canvas
C31_Witness ==
    /\ op = "synced"
    /\ ret
    /\ Has(act, "x")
    /\ \E k \in DOMAIN nodes : Has(store.shapes[getShapeId(k)], "x")

\* hint-positioned as the specification defines it: a text or a note with a position
HintPositioned(ns) ==
    {k \in DOMAIN ns : ns[k].type \in {"text", "note"} /\ Truthy(ns[k], "position")}

\* C32: only annotation-kind nodes (text, note) with a position set are
\* treated as hint-positioned by layout; a node of any other kind that
\* carries a position or relativeTo keeps the position the layout engine
\* computed and counts toward the bounding box of the whole drawing (the
\* reference of every hint-positioned node is taken among all other nodes).
C32_OnlyAnnotationsHintPositioned ==
    op = "placed" =>
        LET boxes   == elkGraph.boxes
            hinted  == HintPositioned(nodes)
            drawing == {LayoutNodeOf(nodes, boxes, k) : k \in DOMAIN boxes \ hinted}
        IN \A n \in layout.nodes :
              IF n.id \in hinted
              THEN LET p == calculatePosition(nodes[n.id], drawing,
                                              [width |-> n.width, height |-> n.height])
                   IN n.x = p.x /\ n.y = p.y
              ELSE n.x = boxes[n.id].x /\ n.y = boxes[n.id].y

\* the hint-positioned nodes of the layout placed `above` a node of GraphState
AboveNodes ==
    {t \in layout.nodes :
        /\ t.id \in HintPositioned(nodes)
        /\ toLowerCase(t.position) = "above"
        /\ Truthy(t, "relativeTo")
        /\ t.relativeTo \in DOMAIN nodes}

\* t is centred on the box n1 and its bottom edge lies GAP above n1's top edge
CentredAbove(t, n1) ==
    /\ 2 * t.x + t.width = 2 * n1.x + n1.width
    /\ t.y + t.height + GAP = n1.y

\* C33 as stated: a hint-positioned node with position "above" and relativeTo
\* naming an existing node n1 is horizontally centred on n1's box with its
\* bottom edge exactly the gap (50) above n1's top edge, whatever the other
\* nodes of the graph are.
C33_AboveAnyExistingNode ==
    op = "placed" =>
        \A t \in AboveNodes :
            \E n1 \in layout.nodes : n1.id = t.relativeTo /\ CentredAbove(t, n1)

\* C33 amended: the same for every n1 that is a node of the LayoutResult and
\* is not itself placed by a hint (a frame, or a node without a position).
C33_AboveReferenceNode ==
    op = "placed" =>
        \A t \in AboveNodes :
            \A n1 \in layout.nodes :
                (n1.id = t.relativeTo /\ n1.id \notin positionedNodeIds(nodes))
                    => CentredAbove(t, n1)

\* a text was placed above a reference node while a third node, at another
\* place, was part of the layout
C33_Witness ==
    /\ op = "placed"
    /\ \E t \in AboveNodes : \E n1, n2 \in layout.nodes :
          /\ n1.id = t.relativeTo
          /\ n1.id \notin positionedNodeIds(nodes)
          /\ n2.id \notin {t.id, n1.id}
          /\ n2.x # n1.x

\* the attributes of a layout node: all but its box
Attributes(n) == [k \in DOMAIN n \ {"x", "y", "width", "height"} |-> n[k]]

\* C34: when layout succeeds, LayoutResult contains exactly one entry for
\* each node of GraphState (frames, nodes inside frames, top-level nodes and
\* hint-positioned nodes alike) and the entry's label, description, type,
\* parentId, color, position, relativeTo and opacity equal the GraphState
\* values.
C34_LayoutCarriesEveryNode ==
    op = "placed" =>
        /\ \A k \in DOMAIN nodes : Cardinality({n \in layout.nodes : n.id = k}) = 1
        /\ \A n \in layout.nodes : n.id \in DOMAIN nodes /\ Attributes(n) = nodes[n.id]

(***************************************************************************)
(* create_node on an existing id, the server's delete_edge, and the two     *)
(* action processors side by side                                          *)
(***************************************************************************)
\* C35: create_node on an id that already exists is last-write-wins: the
\* stored node is replaced by the new action's fields (no field of the
\* previous node survives unless the action repeats it), the number of nodes
\* is unchanged, and the edges, those at that id included, are untouched; on
\* the client and on the server alike.
C35_CreateNodeLastWriteWins ==
    /\ (pc = "call" /\ Called("create_node") /\ ret /\ act.id \in DOMAIN preNodes)
          => /\ DOMAIN nodes = DOMAIN preNodes
             /\ \A k \in DOMAIN nodes \ {act.id} : nodes[k] = preNodes[k]
             /\ edges = preEdges
             /\ nodes[act.id].label = act.label
             /\ nodes[act.id].type = act.type
             /\ nodes[act.id].description
                    = (IF Truthy(act, "description") THEN act.description ELSE "")
             /\ \A f \in CarriedFields :
                   IF Has(act, f[1])
                   THEN Has(nodes[act.id], f[2]) /\ nodes[act.id][f[2]] = act[f[1]]
                   ELSE ~Has(nodes[act.id], f[2])
    /\ (pc = "server" /\ Called("create_node") /\ srvRet /\ act.id \in DOMAIN preNodes)
          => /\ DOMAIN srvNodes = DOMAIN preNodes
             /\ \A k \in DOMAIN srvNodes \ {act.id} : srvNodes[k] = preNodes[k]
             /\ srvEdges = preEdges
             /\ srvNodes[act.id].label = act.label
             /\ srvNodes[act.id].type = act.type
             /\ srvNodes[act.id].description = Elvis(Field(act, "description"), "")
             /\ \A f \in CarriedFields \ {<<"opacity", "opacity">>} :
                   srvNodes[act.id][f[2]] = Field(act, f[1])

\* a create_node that names no color replaced a node that had one, and the
\* color is gone
C35_Witness ==
    /\ pc = "call"
    /\ Called("create_node")
    /\ ret
    /\ act.id \in DOMAIN preNodes
    /\ Has(preNodes[act.id], "color")
    /\ ~Has(act, "color")
    /\ ~Has(nodes[act.id], "color")
    /\ nodes[act.id].label # preNodes[act.id].label

\* C36: on the server GraphState, delete_edge given only an id returns true
\* and removes every edge whose sourceId or targetId equals that id, leaving
\* all other edges and all nodes unchanged.
C36_ServerDeleteEdgeById ==
    (/\ pc = "server"
     /\ Called("delete_edge")
     /\ Field(act, "id") # Null
     /\ ~Has(act, "source_id")
     /\ ~Has(act, "target_id"))
        => /\ srvRet
           /\ srvNodes = preNodes
           /\ srvEdges \subseteq preEdges
           /\ \A e \in preEdges : e \in srvEdges <=> ~Touches(e, act.id)

\* an edge that ends at the node of the id was removed and another edge,
\* which does not touch it, was kept
C36_Witness ==
    /\ pc = "server"
    /\ Called("delete_edge")
    /\ Field(act, "id") # Null
    /\ ~Has(act, "source_id")
    /\ ~Has(act, "target_id")
    /\ srvEdges # {}
    /\ \E e \in ServerRemoved : e.targetId = act.id /\ e.sourceId # act.id

RECURSIVE ClientRets(_, _, _)
\* what the client's applyAction returns for each action of the list, in order
ClientRets(ns, es, as) ==
    IF as = <<>> THEN <<>>
    ELSE LET r == applyAction(ns, es, Head(as))
         IN <<r.ret>> \o ClientRets(r.nodes, r.edges, Tail(as))

RECURSIVE ServerRets(_, _, _)
\* what the server's applyAction returns for each action of the list, in order
ServerRets(ns, es, as) ==
    IF as = <<>> THEN <<>>
    ELSE LET r == ServerApplyAction(ns, es, Head(as))
         IN <<r.ret>> \o ServerRets(r.nodes, r.edges, Tail(as))

\* the client's node c and the server's node s hold the same fields
SameNode(c, s) ==
    /\ c.label = s.label
    /\ c.description = s.description
    /\ c.type = s.type
    /\ \A f \in {"parentId", "color", "position", "relativeTo"} : Field(c, f) = s[f]

\* C37: the server and the client action processors agree: from equivalent
\* states, after the server has applied a batch and the client has applied
\* the batch it was sent, in the same order, every action was accepted or
\* rejected alike and the two GraphStates hold the same node ids, the same
\* node fields and the same set of (sourceId, targetId, bidirectional) edges.
C37_ProcessorsAgree ==
    (pc = "done" /\ wire.kind = "response")
        => /\ ClientRets(TurnStart.nodes, TurnStart.edges, wire.actions)
                 = ServerRets(TurnStartServer.nodes, TurnStartServer.edges, actions)
           /\ DOMAIN nodes = DOMAIN srvNodes
           /\ \A k \in DOMAIN nodes \cap DOMAIN srvNodes : SameNode(nodes[k], srvNodes[k])
           /\ {[sourceId |-> e.sourceId, targetId |-> e.targetId,
                bidirectional |-> e.bidirectional] : e \in EdgeSet(edges)} = srvEdges

(***************************************************************************)
(* Recordings                                                              *)
(***************************************************************************)
\* the terminal replies sent for recording r: sketch commands or ERROR frames
TerminalReplies(r) ==
    {i \in 1..Len(outbox) : outbox[i].kind \in {"response", "ERROR"} /\ outbox[i].rec = r}

\* C38: for every recording of a session the server sends exactly one
\* terminal reply (sketch commands or an ERROR message), built only from
\* that recording's final transcripts, and the session stays open, also
\* when the next recording's audio arrives while the previous recording is
\* still being processed.  As a statement about every state: the session is
\* open, no recording has two terminal replies, a reply is built from the
\* transcripts of its own recording, and once nothing is in progress every
\* recording made has its reply.
C38_OneReplyPerRecording ==
    /\ wsOpen
    /\ \A r \in 1..MaxRecordings : Cardinality(TerminalReplies(r)) <= 1
    /\ \A r \in 1..MaxRecordings : \A i \in TerminalReplies(r) :
          \A k \in 1..Len(outbox[i].from) : outbox[i].from[k] = r
    /\ (pc = "ready" /\ jobs = {})
          => \A r \in 1..Recording : Cardinality(TerminalReplies(r)) = 1

====
